---- MODULE Spec2Model ----
(***************************************************************************)
(* skills-builder: the skill validator (src/validator/index.js), the      *)
(* `check` and `create` command handlers (src/cli/index.js) and the skill *)
(* generator (createSkill), under the specification Spec; the `init` and  *)
(* `update` handlers with initSkill, updateSkill, addLanguages and         *)
(* bumpVersion, under the specification GenSpec.                           *)
(*                                                                         *)
(* JavaScript strings read from files are sequences of one-character      *)
(* strings, so that startsWith, indexOf, includes, split and the regular   *)
(* expressions are computed on the text itself.  JavaScript values read    *)
(* from JSON are tagged records.  Identifiers the program itself fixes     *)
(* (categories, severities, message templates) are TLA+ strings.           *)
(***************************************************************************)
EXTENDS Integers, Sequences, FiniteSets, TLC

\* ------------------------------------------------------------------ bounds

\* How many inspected paths of the initial skill directory may differ from
\* the complete skill it is drawn from.
MaxVaried == 1

\* ------------------------------------------------------------ text (strings)

IsWs(ch) == ch \in {" ", "\n", "\t", "\r"}

IsLineTerminator(ch) == ch \in {"\n", "\r"}

\* pat occurs in s at the 0-based offset i
MatchAt(s, pat, i) ==
    /\ i >= 0
    /\ i + Len(pat) <= Len(s)
    /\ \A j \in 1..Len(pat) : s[i + j] = pat[j]

\* a test for pat anywhere in s
StartsWithAnywhere(s, pat) == \E i \in 0..Len(s) : MatchAt(s, pat, i)

\* String.prototype.startsWith
StartsWith(s, pat) == MatchAt(s, pat, 0)

\* String.prototype.indexOf(pat, from): 0-based offset of the first
\* occurrence at or after from, -1 when there is none
IndexOf(s, pat, from) ==
    LET hits == {i \in from..(Len(s) - Len(pat)) : MatchAt(s, pat, i)}
    IN  IF hits = {} THEN -1
        ELSE CHOOSE i \in hits : \A k \in hits : i <= k

\* String.prototype.includes
Includes(s, pat) == IndexOf(s, pat, 0) # -1

\* String.prototype.substring(a, b), 0 <= a <= b
Substring(s, a, b) ==
    LET hi == IF b > Len(s) THEN Len(s) ELSE b
    IN  IF a >= hi THEN <<>> ELSE SubSeq(s, a + 1, hi)

\* String.prototype.trim
Trim(s) ==
    LET solid == {i \in 1..Len(s) : ~IsWs(s[i])}
    IN  IF solid = {} THEN <<>>
        ELSE LET lo == CHOOSE i \in solid : \A k \in 1..(i - 1) : IsWs(s[k])
                 hi == CHOOSE i \in solid : \A k \in (i + 1)..Len(s) : IsWs(s[k])
             IN  SubSeq(s, lo, hi)

\* s.split(/\s+/).length: one piece more than there are maximal whitespace
\* runs (a leading or trailing run yields an empty piece; "" yields [""])
SplitWsLength(s) ==
    Cardinality({i \in 1..Len(s) : IsWs(s[i]) /\ (i = 1 \/ ~IsWs(s[i - 1]))}) + 1

UpperCaseLetters ==
    <<"A","B","C","D","E","F","G","H","I","J","K","L","M",
      "N","O","P","Q","R","S","T","U","V","W","X","Y","Z">>

LowerCaseLetters ==
    <<"a","b","c","d","e","f","g","h","i","j","k","l","m",
      "n","o","p","q","r","s","t","u","v","w","x","y","z">>

\* String.prototype.toLowerCase
ToLowerCase(s) ==
    [i \in 1..Len(s) |->
        IF \E k \in 1..26 : UpperCaseLetters[k] = s[i]
        THEN LowerCaseLetters[CHOOSE k \in 1..26 : UpperCaseLetters[k] = s[i]]
        ELSE s[i]]

\* frontmatterText.match(/description:\s*(.+)/): the leftmost occurrence of
\* "description:" after which some split of the following whitespace leaves a
\* character that is no line terminator; \s* is greedy, (.+) runs to the end
\* of that line.  [matched, group]
DescriptionMatch(s) ==
    LET key  == <<"d","e","s","c","r","i","p","t","i","o","n",":">>
        \* offsets (0-based) at which (.+) may start after the key at p
        starts(p) == {e \in (p + Len(key))..(Len(s) - 1) :
                        /\ \A k \in (p + Len(key) + 1)..e : IsWs(s[k])
                        /\ ~IsLineTerminator(s[e + 1])}
        hits == {p \in 0..(Len(s) - Len(key)) : MatchAt(s, key, p) /\ starts(p) # {}}
    IN  IF hits = {} THEN [matched |-> FALSE, group |-> <<>>]
        ELSE LET p  == CHOOSE i \in hits : \A k \in hits : i <= k
                 e  == CHOOSE i \in starts(p) : \A k \in starts(p) : i >= k
                 eol == {k \in (e + 1)..Len(s) : IsLineTerminator(s[k])}
                 end == IF eol = {} THEN Len(s)
                        ELSE (CHOOSE i \in eol : \A k \in eol : i <= k) - 1
             IN  [matched |-> TRUE, group |-> SubSeq(s, e + 1, end)]

\* BEST_PRACTICES.nameFormat.test(s): /^([a-z0-9]+(-[a-z0-9]+)*)$/
NameFormatTest(s) ==
    LET alnum == {"a","b","c","d","e","f","g","h","i","j","k","l","m",
                  "n","o","p","q","r","s","t","u","v","w","x","y","z",
                  "0","1","2","3","4","5","6","7","8","9"}
    IN  /\ Len(s) > 0
        /\ \A i \in 1..Len(s) : s[i] \in alnum \/ s[i] = "-"
        /\ s[1] # "-" /\ s[Len(s)] # "-"
        /\ \A i \in 1..(Len(s) - 1) : ~(s[i] = "-" /\ s[i + 1] = "-")

\* ------------------------------------------------------- JavaScript values

Undefined == [t |-> "undefined"]

Null == [t |-> "null"]

Bool(b) == [t |-> "boolean", b |-> b]

Num(n) == [t |-> "number", n |-> n]

Str(s) == [t |-> "string", s |-> s]

Arr(a) == [t |-> "array", a |-> a]

\* an object: its own properties in insertion order, each [k, v]
Obj(o) == [t |-> "object", o |-> o]

Prop(k, v) == [k |-> k, v |-> v]

\* the outcome of an expression that throws
Thrown == [t |-> "throw"]

Digits == <<"0","1","2","3","4","5","6","7","8","9">>

\* the property keys "0" .. "n-1" of an array or string of length n
IndexKeys(n) == [i \in 1..n |-> <<Digits[i]>>]

\* a property read that throws on every value, as it does on null
GetPropOfNull(v, key) == Thrown

\* v[key]: a TypeError on null and undefined, an own property of an object,
\* length or an element of an array or string, undefined otherwise
GetProp(v, key) ==
    CASE v.t \in {"undefined", "null", "throw"} -> Thrown
      [] v.t = "object" ->
            IF \E i \in 1..Len(v.o) : v.o[i].k = key
            THEN v.o[CHOOSE i \in 1..Len(v.o) : v.o[i].k = key].v
            ELSE Undefined
      [] v.t = "array" ->
            IF key = <<"l","e","n","g","t","h">> THEN Num(Len(v.a))
            ELSE IF \E i \in 1..Len(v.a) : IndexKeys(Len(v.a))[i] = key
                 THEN v.a[CHOOSE i \in 1..Len(v.a) : IndexKeys(Len(v.a))[i] = key]
                 ELSE Undefined
      [] v.t = "string" ->
            IF key = <<"l","e","n","g","t","h">> THEN Num(Len(v.s))
            ELSE IF \E i \in 1..Len(v.s) : IndexKeys(Len(v.s))[i] = key
                 THEN Str(<<v.s[CHOOSE i \in 1..Len(v.s) : IndexKeys(Len(v.s))[i] = key]>>)
                 ELSE Undefined
      [] OTHER -> Undefined

\* ToBoolean
Truthy(v) ==
    CASE v.t \in {"undefined", "null"} -> FALSE
      [] v.t = "boolean" -> v.b
      [] v.t = "number" -> v.n # 0
      [] v.t = "string" -> v.s # <<>>
      [] OTHER -> TRUE

\* a && b
And(a, b) == IF Truthy(a) THEN b ELSE a

\* ToString, as RegExp.prototype.test and a computed property key apply it
\* (an array is its elements joined by ",")
RECURSIVE JSToString(_)
JSToString(v) ==
    CASE v.t = "string" -> v.s
      [] v.t = "number" -> <<Digits[v.n + 1]>>
      [] v.t = "boolean" -> IF v.b THEN <<"t","r","u","e">> ELSE <<"f","a","l","s","e">>
      [] v.t = "null" -> <<"n","u","l","l">>
      [] v.t = "undefined" -> <<"u","n","d","e","f","i","n","e","d">>
      [] v.t = "array" ->
            IF v.a = <<>> THEN <<>>
            ELSE IF Len(v.a) = 1
                 THEN (IF v.a[1].t \in {"null", "undefined"} THEN <<>> ELSE JSToString(v.a[1]))
                 ELSE JSToString(Arr(<<v.a[1]>>)) \o <<",">> \o JSToString(Arr(Tail(v.a)))
      [] OTHER -> <<"[","o","b","j","e","c","t"," ","O","b","j","e","c","t","]">>

\* Object.keys(v) / Object.values(v) throw on null and undefined
CanEnumerate(v) == v.t \notin {"undefined", "null"}

ObjectKeys(v) ==
    CASE v.t = "object" -> [i \in 1..Len(v.o) |-> v.o[i].k]
      [] v.t = "array" -> IndexKeys(Len(v.a))
      [] v.t = "string" -> IndexKeys(Len(v.s))
      [] OTHER -> <<>>

ObjectValues(v) ==
    CASE v.t = "object" -> [i \in 1..Len(v.o) |-> v.o[i].v]
      [] v.t = "array" -> v.a
      [] v.t = "string" -> [i \in 1..Len(v.s) |-> Str(<<v.s[i]>>)]
      [] OTHER -> <<>>

\* ------------------------------------------------------------ file contents

\* plain text
Text(chars) == [chars |-> chars]

\* head followed by n further words, each " w"
LongText(head, n) == [head |-> head, words |-> n]

\* text that is the JSON serialisation of the value v
JsonText(v) == [json |-> v]

\* text a generator function returns, which no operation reads back
Generated(fn) == [gen |-> fn]

\* the characters of a text
Chars(text) ==
    IF "chars" \in DOMAIN text THEN text.chars
    ELSE IF "head" \in DOMAIN text
         THEN text.head \o [i \in 1..(2 * text.words) |-> IF i % 2 = 1 THEN " " ELSE "w"]
         ELSE <<>>

\* JSON.parse(text): the value, or a SyntaxError
JSONParse(text) == IF "json" \in DOMAIN text THEN text.json ELSE Thrown

\* -------------------------------------------------------------- filesystem

Absent == [kind |-> "absent"]

Dir == [kind |-> "dir"]

File(content) == [kind |-> "file", content |-> content]

\* fs.existsSync(join(skillPath, p))
existsSync(tree, p) == tree[p].kind # "absent"

\* fs.statSync(p).isDirectory()
\* a stat test that takes any existing entry for a directory
isEntry(tree, p) == tree[p].kind # "absent"

isDirectory(tree, p) == tree[p].kind = "dir"

\* fs.readFileSync(p, 'utf-8') throws on a directory (EISDIR) and on a
\* missing path (ENOENT)
CanRead(tree, p) == tree[p].kind = "file"

readFileSync(tree, p) == tree[p].content

\* ------------------------------------------------- validator: rule tables

SEVERITY == [ERROR |-> "error", WARNING |-> "warning", INFO |-> "info", SUCCESS |-> "success"]

REQUIRED_FILES == <<"SKILL.md">>

\* a recommended list that repeats the required SKILL.md
RecommendedWithRequired ==
    <<"SKILL.md", "package.json", "README.md", "polyglot.json", ".skill.yml">>

RECOMMENDED_FILES == <<"package.json", "README.md", "polyglot.json", ".skill.yml">>

BUNDLED_RESOURCES == <<"scripts", "references", "assets">>

\* BEST_PRACTICES.packageJsonFields
packageJsonFields == <<"name", "version", "description", "type", "main", "bin">>

requiredMarketplaceFields ==
    <<"name", "version", "description", "categories", "keywords", "author",
      "license", "repository", "homepage", "bugs", "marketplace">>

validMarketplaces ==
    << <<"s","k","i","l","l","s","m","p">>, <<"d","a","y","m","a","d","e">>,
       <<"h","e","x","r","a","y","s">>, <<"s","m","a","r","t","s","c","o","p","e">> >>

\* the characters of the property names the validator reads
Key ==
    [name |-> <<"n","a","m","e">>, version |-> <<"v","e","r","s","i","o","n">>,
     description |-> <<"d","e","s","c","r","i","p","t","i","o","n">>,
     type |-> <<"t","y","p","e">>, main |-> <<"m","a","i","n">>, bin |-> <<"b","i","n">>,
     categories |-> <<"c","a","t","e","g","o","r","i","e","s">>,
     keywords |-> <<"k","e","y","w","o","r","d","s">>,
     author |-> <<"a","u","t","h","o","r">>, license |-> <<"l","i","c","e","n","s","e">>,
     repository |-> <<"r","e","p","o","s","i","t","o","r","y">>,
     homepage |-> <<"h","o","m","e","p","a","g","e">>, bugs |-> <<"b","u","g","s">>,
     marketplace |-> <<"m","a","r","k","e","t","p","l","a","c","e">>]

\* 'dist/cli/index.js', the path bin is compared with
CliEntryPoint == <<"d","i","s","t","/","c","l","i","/","i","n","d","e","x",".","j","s">>

\* BEST_PRACTICES.moduleType
moduleType == <<"m","o","d","u","l","e">>

\* the word count above which SKILL.md is reported as long
WordLimit == 5000

Dashes == <<"-","-","-">>

\* --------------------------------------------- validator: report and events

\* a check message: a template and the number interpolated into it
Msg(text) == [text |-> text, n |-> 0]

MsgN(text, n) == [text |-> text, n |-> n]

\* t(key): translations[key]?.[''] || key
t(tr, key) == IF key \in DOMAIN tr /\ tr[key] # "" THEN tr[key] ELSE key

\* path.basename
basename(path) == IF path = <<>> THEN <<>> ELSE path[Len(path)]

\* the results object checkSkill starts from
NewResults(skillPath) ==
    [success |-> TRUE, skillPath |-> skillPath, skillName |-> basename(skillPath),
     checks |-> <<>>, errors |-> <<>>, warnings |-> <<>>, recommendations |-> <<>>]

\* addCheck without the line that clears success
addCheckKeepsSuccess(r, check) ==
    LET pushed == [r EXCEPT !.checks = Append(@, check)]
    IN  IF check.severity = SEVERITY.ERROR
        THEN [pushed EXCEPT !.errors = Append(@, check)]
        ELSE IF check.severity = SEVERITY.WARNING
             THEN [pushed EXCEPT !.warnings = Append(@, check)]
             ELSE pushed

\* addCheck that also files an info check under the warnings
addCheckInfoAsWarning(r, check) ==
    LET pushed == [r EXCEPT !.checks = Append(@, check)]
    IN  IF check.severity = SEVERITY.ERROR
        THEN [pushed EXCEPT !.errors = Append(@, check), !.success = FALSE]
        ELSE IF check.severity \in {SEVERITY.WARNING, SEVERITY.INFO}
             THEN [pushed EXCEPT !.warnings = Append(@, check)]
             ELSE pushed

\* addCheck(category, name, passed, severity, message), applied to results r
addCheck(r, check) ==
    LET pushed == [r EXCEPT !.checks = Append(@, check)]
    IN  IF check.severity = SEVERITY.ERROR
        THEN [pushed EXCEPT !.errors = Append(@, check), !.success = FALSE]
        ELSE IF check.severity = SEVERITY.WARNING
             THEN [pushed EXCEPT !.warnings = Append(@, check)]
             ELSE pushed

\* one step of checkSkill: a console.log, an addCheck call, an exception
\* leaving the function, or the early return
Log(text) == [ev |-> "log", text |-> text]

Check(category, name, passed, severity, message) ==
    [ev |-> "check",
     check |-> [category |-> category, name |-> name, passed |-> passed,
                severity |-> severity, message |-> message]]

Throw == [ev |-> "throw"]

Return == [ev |-> "return"]

\* a verdict that keeps the given severity when the check passes
VerdictKeepsSeverity(category, name, ok, severity, message) ==
    Check(category, name, Bool(ok), severity, IF ok THEN Msg("") ELSE message)

\* a check whose passed flag is the boolean ok: severity SUCCESS and an empty
\* message when ok, the given severity and message otherwise
Verdict(category, name, ok, severity, message) ==
    Check(category, name, Bool(ok),
          IF ok THEN SEVERITY.SUCCESS ELSE severity,
          IF ok THEN Msg("") ELSE message)

\* try { body } catch (e) { handler }: body runs up to its exception
TryCatch(body, handler) ==
    IF body # <<>> /\ body[Len(body)] = Throw
    THEN SubSeq(body, 1, Len(body) - 1) \o handler
    ELSE body

\* ------------------------------------------------ validator: the sections
\* Each section of checkSkill is the sequence of its steps on the directory
\* tree, in program order.  A section that throws ends with Throw.

\* the existence gate without its return
DirectoryExistsNoReturn(tree, tr) ==
    <<Log(t(tr, "info_checking_structure"))>> \o
    IF ~existsSync(tree, ".")
    THEN <<Check("structure", <<"directory_exists">>, Bool(FALSE), SEVERITY.ERROR,
                 Msg(t(tr, "error_no_skill_dir")))>>
    ELSE <<>>

\* 1. Check if skill directory exists
DirectoryExists(tree, tr) ==
    <<Log(t(tr, "info_checking_structure"))>> \o
    IF ~existsSync(tree, ".")
    THEN <<Check("structure", <<"directory_exists">>, Bool(FALSE), SEVERITY.ERROR,
                 Msg(t(tr, "error_no_skill_dir"))),
           Return>>
    ELSE <<>>

\* 2. Check required files (file.replace(/\//g, '_') leaves these names as
\* they are: none holds a slash)
RequiredFiles(tree, tr) ==
    [i \in 1..Len(REQUIRED_FILES) |->
        Verdict("structure", <<"file_", REQUIRED_FILES[i]>>,
                existsSync(tree, REQUIRED_FILES[i]),
                SEVERITY.ERROR, Msg(t(tr, "error_missing_required")))]

\* the frontmatter checks of a SKILL.md that starts with '---'
Frontmatter(content) ==
    LET frontmatterEnd  == IndexOf(content, Dashes, 4)
        frontmatterText == Substring(content, 4, frontmatterEnd)
        hasName         == Includes(frontmatterText, <<"n","a","m","e",":">>)
        hasDescription  == Includes(frontmatterText,
                               <<"d","e","s","c","r","i","p","t","i","o","n",":">>)
        hasLicense      == Includes(frontmatterText, <<"l","i","c","e","n","s","e",":">>)
        descMatch       == DescriptionMatch(frontmatterText)
        description     == ToLowerCase(descMatch.group)
        describesUsage  ==
            \/ Includes(description, <<"u","s","e"," ","w","h","e","n">>)
            \/ Includes(description, <<"u","s","e"," ","t","h","i","s"," ","s","k","i","l","l">>)
            \/ Includes(description, <<"s","h","o","u","l","d"," ","b","e"," ","u","s","e","d">>)
            \/ Includes(description, <<"w","h","e","n"," ","t","o">>)
    IN  IF frontmatterEnd > 0
        THEN <<Verdict("SKILL.md", <<"frontmatter_has_name">>, hasName, SEVERITY.ERROR,
                       Msg("Frontmatter must include \"name:\" field")),
               Verdict("SKILL.md", <<"frontmatter_has_description">>, hasDescription,
                       SEVERITY.ERROR,
                       Msg("Frontmatter must include \"description:\" field")),
               Verdict("SKILL.md", <<"frontmatter_has_license">>, hasLicense, SEVERITY.INFO,
                       Msg("Consider adding \"license:\" field to frontmatter"))>> \o
             (IF hasDescription /\ descMatch.matched
              THEN <<Verdict("SKILL.md", <<"describes_when_to_use">>, describesUsage,
                             SEVERITY.WARNING,
                             Msg("Description should explain when to use this skill (e.g., \"Use this skill when...\")"))>>
              ELSE <<>>)
        ELSE <<>>

\* 2.5. Validate SKILL.md
SkillMd(tree, tr) ==
    <<Log(t(tr, "info_checking_skill_md"))>> \o
    IF existsSync(tree, "SKILL.md")
    THEN TryCatch(
            IF ~CanRead(tree, "SKILL.md") THEN <<Throw>>
            ELSE LET skillMdContent == Chars(readFileSync(tree, "SKILL.md"))
                     hasFrontmatter == StartsWith(skillMdContent, Dashes)
                     bodyStart      == IndexOf(skillMdContent, Dashes, 4)
                     hasBody        ==
                        /\ bodyStart > 0
                        /\ Len(Trim(Substring(skillMdContent, bodyStart + 3,
                                              Len(skillMdContent)))) > 0
                 IN  <<Verdict("SKILL.md", <<"has_frontmatter">>, hasFrontmatter,
                               SEVERITY.ERROR,
                               Msg("SKILL.md must start with YAML frontmatter (---)"))>> \o
                     (IF hasFrontmatter THEN Frontmatter(skillMdContent) ELSE <<>>) \o
                     <<Verdict("SKILL.md", <<"has_markdown_body">>, hasBody,
                               SEVERITY.WARNING,
                               Msg("SKILL.md should have markdown body content after frontmatter"))>>,
            <<Check("SKILL.md", <<"readable">>, Bool(FALSE), SEVERITY.ERROR,
                    Msg("Could not read SKILL.md"))>>)
    ELSE <<>>

\* 3. Check recommended files
RecommendedFiles(tree, tr) ==
    LET missing == SelectSeq(RECOMMENDED_FILES, LAMBDA file : ~existsSync(tree, file))
    IN  [i \in 1..Len(missing) |->
            Check("structure", <<"file_", missing[i]>>, Bool(FALSE), SEVERITY.WARNING,
                  Msg(t(tr, "warning_missing_file")))]

\* the checks on a parsed package.json; reading a property of null throws
PackageJsonChecks(packageJson) ==
    LET name    == GetProp(packageJson, Key.name)
        type    == GetProp(packageJson, Key.type)
        bin     == GetProp(packageJson, Key.bin)
        binPath == IF bin.t = "string" THEN bin ELSE GetProp(bin, JSToString(name))
        isModule == type.t = "string" /\ type.s = moduleType
        hasCorrectBin ==
            And(binPath, Bool(binPath.t = "string" /\ binPath.s = CliEntryPoint))
    IN  IF name = Thrown THEN <<Throw>>
        ELSE [i \in 1..Len(packageJsonFields) |->
                 Verdict("package.json", <<"field_", packageJsonFields[i]>>,
                         GetProp(packageJson, Key[packageJsonFields[i]]) # Undefined,
                         SEVERITY.WARNING, Msg("Missing field: ${field}"))] \o
             (IF Truthy(name)
              THEN <<Verdict("package.json", <<"name_format">>,
                             NameFormatTest(JSToString(name)), SEVERITY.WARNING,
                             Msg("Name should be kebab-case (lowercase with hyphens)"))>>
              ELSE <<>>) \o
             (IF Truthy(type)
              THEN <<Verdict("package.json", <<"is_module">>, isModule, SEVERITY.WARNING,
                             Msg("Type should be \"module\""))>>
              ELSE <<>>) \o
             (IF Truthy(bin)
              THEN <<Check("package.json", <<"bin_correct">>, hasCorrectBin,
                           IF Truthy(hasCorrectBin) THEN SEVERITY.SUCCESS ELSE SEVERITY.INFO,
                           IF Truthy(hasCorrectBin) THEN Msg("")
                           ELSE Msg("bin should point to \"dist/cli/index.js\""))>>
              ELSE <<>>)

\* the package.json step without its try block
PackageJsonUncaught(tree, tr) ==
    <<Log(t(tr, "info_checking_package"))>> \o
    IF existsSync(tree, "package.json")
    THEN IF ~CanRead(tree, "package.json") THEN <<Throw>>
         ELSE IF JSONParse(readFileSync(tree, "package.json")) = Thrown THEN <<Throw>>
         ELSE PackageJsonChecks(JSONParse(readFileSync(tree, "package.json")))
    ELSE <<>>

\* 4. Validate package.json
PackageJson(tree, tr) ==
    <<Log(t(tr, "info_checking_package"))>> \o
    IF existsSync(tree, "package.json")
    THEN TryCatch(
            IF ~CanRead(tree, "package.json") THEN <<Throw>>
            ELSE IF JSONParse(readFileSync(tree, "package.json")) = Thrown THEN <<Throw>>
            ELSE PackageJsonChecks(JSONParse(readFileSync(tree, "package.json"))),
            <<Check("package.json", <<"valid_json">>, Bool(FALSE), SEVERITY.ERROR,
                    Msg(t(tr, "error_invalid_package_json")))>>)
    ELSE <<>>

\* the checks on a parsed polyglot.json: Object.values and Object.keys throw
\* on null, and so does reading [''] of a null entry
PolyglotChecks(polyglot) ==
    LET values == ObjectValues(polyglot)
        \* the entries at which some() stops: translations[''] is not undefined
        \* there, or reading it throws
        stops  == {i \in 1..Len(values) : GetProp(values[i], <<>>) # Undefined}
        first  == CHOOSE i \in stops : \A k \in stops : i <= k
        hasDefaultLang == stops # {}
        languages == UNION {{ObjectKeys(values[i])[k] : k \in 1..Len(ObjectKeys(values[i]))} :
                            i \in 1..Len(values)}
        hasMultipleLanguages == Cardinality(languages) > 1
    IN  IF ~CanEnumerate(polyglot) THEN <<Throw>>
        ELSE IF stops # {} /\ GetProp(values[first], <<>>) = Thrown THEN <<Throw>>
        ELSE <<Verdict("polyglot.json", <<"has_default_language">>, hasDefaultLang,
                       SEVERITY.WARNING,
                       Msg("Each key should have a default (empty string) translation"))>> \o
             (IF \E i \in 1..Len(values) : ~CanEnumerate(values[i]) THEN <<Throw>>
              ELSE <<Check("polyglot.json", <<"multiple_languages">>,
                           Bool(hasMultipleLanguages),
                           IF hasMultipleLanguages THEN SEVERITY.SUCCESS ELSE SEVERITY.INFO,
                           IF hasMultipleLanguages
                           THEN MsgN("Found ${languages.size} languages: ${[...languages].join(', ')}",
                                     Cardinality(languages))
                           ELSE Msg("Consider adding multiple language support"))>>)

\* 5. Validate polyglot.json
Polyglot(tree, tr) ==
    <<Log(t(tr, "info_checking_polyglot"))>> \o
    IF existsSync(tree, "polyglot.json")
    THEN TryCatch(
            IF ~CanRead(tree, "polyglot.json") THEN <<Throw>>
            ELSE IF JSONParse(readFileSync(tree, "polyglot.json")) = Thrown THEN <<Throw>>
            ELSE PolyglotChecks(JSONParse(readFileSync(tree, "polyglot.json"))),
            <<Check("polyglot.json", <<"valid_json">>, Bool(FALSE), SEVERITY.ERROR,
                    Msg("polyglot.json contains invalid JSON"))>>)
    ELSE <<Check("polyglot.json", <<"exists">>, Bool(FALSE), SEVERITY.WARNING,
                 Msg("Consider using polyglot.json for internationalization"))>>

\* 6. Validate CLI entry point (the read is outside any try)
CliEntry(tree, tr) ==
    <<Log(t(tr, "info_checking_cli"))>> \o
    IF existsSync(tree, "dist/cli/index.js")
    THEN IF ~CanRead(tree, "dist/cli/index.js") THEN <<Throw>>
         ELSE LET cliContent == Chars(readFileSync(tree, "dist/cli/index.js"))
                  hasShebang == StartsWith(cliContent, <<"#","!","/">>)
                  hasArgv    ==
                     \/ Includes(cliContent, <<"y","a","r","g","s">>)
                     \/ Includes(cliContent, <<"a","r","g","v">>)
                     \/ Includes(cliContent, <<"p","r","o","c","e","s","s",".","a","r","g","v">>)
              IN  <<Verdict("cli", <<"has_shebang">>, hasShebang, SEVERITY.INFO,
                            Msg("CLI file should start with shebang (#!/usr/bin/env node)")),
                    Verdict("cli", <<"parses_args">>, hasArgv, SEVERITY.WARNING,
                            Msg("CLI should parse command line arguments"))>>
    ELSE <<>>

\* 7. Check best practices (the read of .gitignore is outside any try)
BestPractices(tree, tr) ==
    <<Log(t(tr, "info_checking_best_practices")),
      Verdict("best_practices", <<"has_skill_yml">>, existsSync(tree, ".skill.yml"),
              SEVERITY.INFO, Msg("Consider adding .skill.yml for configuration")),
      Verdict("best_practices", <<"has_locales">>, existsSync(tree, "locales"),
              SEVERITY.INFO,
              Msg("Consider adding locales directory for additional translations")),
      Verdict("best_practices", <<"has_src_directory">>, existsSync(tree, "src"),
              SEVERITY.INFO, Msg("Source code should be in src/ directory"))>> \o
    (IF existsSync(tree, ".gitignore")
     THEN IF ~CanRead(tree, ".gitignore") THEN <<Throw>>
          ELSE LET gitignore == Chars(readFileSync(tree, ".gitignore"))
                   ignoresDist == \/ Includes(gitignore, <<"/","d","i","s","t">>)
                                  \/ Includes(gitignore, <<"d","i","s","t">>)
               IN  <<Verdict("best_practices", <<"ignores_dist">>, ignoresDist,
                             SEVERITY.WARNING, Msg("Add /dist to .gitignore"))>>
     ELSE <<>>) \o
    <<Verdict("best_practices", <<"has_license_file">>, existsSync(tree, "LICENSE"),
              SEVERITY.WARNING,
              Msg("Add LICENSE file for proper open source distribution")),
      Verdict("best_practices", <<"has_contributing">>, existsSync(tree, "CONTRIBUTING.md"),
              SEVERITY.INFO, Msg("Consider adding CONTRIBUTING.md for contributors")),
      Verdict("best_practices", <<"has_changelog">>, existsSync(tree, "CHANGELOG.md"),
              SEVERITY.INFO, Msg("Consider adding CHANGELOG.md for version tracking"))>>

\* the checks on a parsed marketplace.json; reading a property of null
\* throws, and so does repository.startsWith when repository is no string
MarketplaceChecks(marketplace) ==
    LET categories == GetProp(marketplace, Key.categories)
        keywords   == GetProp(marketplace, Key.keywords)
        market     == GetProp(marketplace, Key.marketplace)
        repository == GetProp(marketplace, Key.repository)
        nonEmptyArray(v) == v.t = "array" /\ Len(v.a) > 0
        isValidMarketplace ==
            /\ market.t = "string"
            /\ \E i \in 1..Len(validMarketplaces) : validMarketplaces[i] = market.s
    IN  IF categories = Thrown THEN <<Throw>>
        ELSE [i \in 1..Len(requiredMarketplaceFields) |->
                 Verdict("marketplace", <<"field_", requiredMarketplaceFields[i]>>,
                         GetProp(marketplace, Key[requiredMarketplaceFields[i]]) # Undefined,
                         SEVERITY.WARNING, Msg("Missing marketplace field: ${field}"))] \o
             (IF Truthy(categories)
              THEN <<Verdict("marketplace", <<"has_valid_categories">>,
                             nonEmptyArray(categories), SEVERITY.WARNING,
                             Msg("categories should be a non-empty array"))>>
              ELSE <<>>) \o
             (IF Truthy(keywords)
              THEN <<Verdict("marketplace", <<"has_valid_keywords">>,
                             nonEmptyArray(keywords), SEVERITY.WARNING,
                             Msg("keywords should be a non-empty array"))>>
              ELSE <<>>) \o
             (IF Truthy(market)
              THEN <<Verdict("marketplace", <<"valid_marketplace">>, isValidMarketplace,
                             SEVERITY.WARNING,
                             Msg("marketplace should be one of: ${validMarketplaces.join(', ')}"))>>
              ELSE <<>>) \o
             (IF Truthy(repository)
              THEN IF repository.t # "string" THEN <<Throw>>
                   ELSE <<Verdict("marketplace", <<"valid_repository_url">>,
                                  StartsWith(repository.s, <<"h","t","t","p","s",":","/","/">>),
                                  SEVERITY.WARNING,
                                  Msg("repository should be a valid HTTPS URL"))>>
              ELSE <<>>)

\* 9. Check marketplace readiness
Marketplace(tree, tr) ==
    LET hasMarketplaceJson == existsSync(tree, "marketplace.json")
    IN  <<Log(t(tr, "info_checking_marketplace")),
          Verdict("marketplace", <<"has_marketplace_json">>, hasMarketplaceJson,
                  SEVERITY.INFO,
                  Msg("Consider adding marketplace.json for market distribution"))>> \o
        IF hasMarketplaceJson
        THEN TryCatch(
                IF ~CanRead(tree, "marketplace.json") THEN <<Throw>>
                ELSE IF JSONParse(readFileSync(tree, "marketplace.json")) = Thrown
                     THEN <<Throw>>
                ELSE MarketplaceChecks(JSONParse(readFileSync(tree, "marketplace.json"))),
                <<Check("marketplace", <<"valid_json">>, Bool(FALSE), SEVERITY.ERROR,
                        Msg("marketplace.json contains invalid JSON"))>>)
        ELSE <<>>

\* 8. Check Bundled Resources
BundledResources(tree, tr) ==
    <<Log(t(tr, "info_checking_resources"))>> \o
    [i \in 1..Len(BUNDLED_RESOURCES) |->
        LET resourceDir == BUNDLED_RESOURCES[i]
            exists == existsSync(tree, resourceDir) /\ isDirectory(tree, resourceDir)
        IN  IF exists
            THEN Check("bundled_resources", <<"has_", resourceDir>>, Bool(TRUE),
                       SEVERITY.SUCCESS, Msg("Found ${resourceDir}/ directory"))
            ELSE Check("bundled_resources", <<"has_", resourceDir>>, Bool(TRUE),
                       SEVERITY.INFO,
                       Msg("Consider adding ${resourceDir}/ for ${getResourceDescription(resourceDir)}"))]

\* Check for SKILL.md content bloat (the read is outside any try)
ConciseContent(tree, tr) ==
    IF existsSync(tree, "SKILL.md")
    THEN IF ~CanRead(tree, "SKILL.md") THEN <<Throw>>
         ELSE LET wordCount == SplitWsLength(Chars(readFileSync(tree, "SKILL.md")))
              IN  IF wordCount > WordLimit
                  THEN <<Check("SKILL.md", <<"concise_content">>, Bool(FALSE),
                               SEVERITY.WARNING,
                               MsgN("SKILL.md is quite long (${wordCount} words). Consider moving detailed reference material to references/ directory per PDF guide (Concise is Key principle)",
                                    wordCount))>>
                  ELSE <<Check("SKILL.md", <<"concise_content">>, Bool(TRUE),
                               SEVERITY.SUCCESS,
                               MsgN("SKILL.md is concise (${wordCount} words)", wordCount))>>
    ELSE <<>>

\* the sections with the bundled resources checked before the marketplace
SectionsBundledFirst ==
    <<"DirectoryExists", "RequiredFiles", "SkillMd", "RecommendedFiles", "PackageJson",
      "Polyglot", "CliEntry", "BestPractices", "BundledResources", "ConciseContent",
      "Marketplace">>

\* the sections of checkSkill before the recommendations, in program order
Sections ==
    <<"DirectoryExists", "RequiredFiles", "SkillMd", "RecommendedFiles", "PackageJson",
      "Polyglot", "CliEntry", "BestPractices", "Marketplace", "BundledResources",
      "ConciseContent">>

SectionSteps(section, tree, tr) ==
    CASE section = "DirectoryExists"  -> DirectoryExists(tree, tr)
      [] section = "RequiredFiles"    -> RequiredFiles(tree, tr)
      [] section = "SkillMd"          -> SkillMd(tree, tr)
      [] section = "RecommendedFiles" -> RecommendedFiles(tree, tr)
      [] section = "PackageJson"      -> PackageJson(tree, tr)
      [] section = "Polyglot"         -> Polyglot(tree, tr)
      [] section = "CliEntry"         -> CliEntry(tree, tr)
      [] section = "BestPractices"    -> BestPractices(tree, tr)
      [] section = "Marketplace"      -> Marketplace(tree, tr)
      [] section = "BundledResources" -> BundledResources(tree, tr)
      [] section = "ConciseContent"   -> ConciseContent(tree, tr)

\* the section control enters when it leaves the given one; after the last,
\* the recommendations
After(section) ==
    LET i == CHOOSE k \in 1..Len(Sections) : Sections[k] = section
    IN  IF i < Len(Sections) THEN Sections[i + 1] ELSE "recommendations"

\* --------------------------------------------------- validator: reporters

\* JSON.stringify of a check object: a property whose value is undefined is
\* left out, every other value is written as it is
StringifyCheck(check) ==
    IF check.passed = Undefined
    THEN [category |-> check.category, name |-> check.name,
          severity |-> check.severity, message |-> check.message]
    ELSE check

\* JSON.stringify(results, null, 2): the text of the JSON document
JSONStringify(r) ==
    JsonText([success |-> r.success, skillPath |-> r.skillPath, skillName |-> r.skillName,
              checks   |-> [i \in 1..Len(r.checks) |-> StringifyCheck(r.checks[i])],
              errors   |-> [i \in 1..Len(r.errors) |-> StringifyCheck(r.errors[i])],
              warnings |-> [i \in 1..Len(r.warnings) |-> StringifyCheck(r.warnings[i])],
              recommendations |-> r.recommendations])

\* the lines formatText pushes for one check
TextCheckLines(check) ==
    LET icon == IF Truthy(check.passed) THEN "pass"
                ELSE IF check.severity = SEVERITY.WARNING THEN "warn" ELSE "fail"
    IN  <<[kind |-> "check", icon |-> icon, category |-> check.category,
           name |-> check.name]>> \o
        (IF check.message.text # "" /\ ~Truthy(check.passed)
         THEN <<[kind |-> "message", message |-> check.message]>>
         ELSE <<>>)

RECURSIVE Flatten(_)
Flatten(seqs) == IF seqs = <<>> THEN <<>> ELSE Head(seqs) \o Flatten(Tail(seqs))

\* the trailing recommendations block of formatText and formatMarkdown
RecommendationLines(r) ==
    IF Len(r.recommendations) > 0
    THEN <<[kind |-> "blank"], [kind |-> "recommendations_header"]>> \o
         [i \in 1..Len(r.recommendations) |->
             [kind |-> "recommendation", text |-> r.recommendations[i]]]
    ELSE <<>>

formatText(r, tr) ==
    [lines |->
        <<[kind |-> "title"], [kind |-> "path", path |-> r.skillPath],
          [kind |-> "name", name |-> r.skillName], [kind |-> "blank"],
          IF r.success
          THEN [kind |-> "passed", text |-> t(tr, "validation_passed")]
          ELSE [kind |-> "failed", text |-> t(tr, "validation_failed"),
                count |-> Len(r.errors)]>> \o
        (IF Len(r.warnings) > 0
         THEN <<[kind |-> "warnings", text |-> t(tr, "validation_warnings"),
                 count |-> Len(r.warnings)]>>
         ELSE <<>>) \o
        <<[kind |-> "blank"], [kind |-> "summary_header"], [kind |-> "rule"]>> \o
        Flatten([i \in 1..Len(r.checks) |-> TextCheckLines(r.checks[i])]) \o
        RecommendationLines(r)]

formatMarkdown(r, tr) ==
    LET structureChecks == SelectSeq(r.checks, LAMBDA c : c.category = "structure")
        bpChecks == SelectSeq(r.checks,
                        LAMBDA c : c.category = "best_practices" \/ c.category = "package.json")
    IN  [lines |->
            <<[kind |-> "title"], [kind |-> "blank"],
              [kind |-> "header", text |-> t(tr, "header_summary")], [kind |-> "blank"],
              [kind |-> "skill", name |-> r.skillName],
              [kind |-> "path", path |-> r.skillPath],
              [kind |-> "status", passed |-> r.success],
              [kind |-> "errors", count |-> Len(r.errors)],
              [kind |-> "warnings", count |-> Len(r.warnings)], [kind |-> "blank"],
              [kind |-> "header", text |-> t(tr, "header_structure")],
              [kind |-> "blank"]>> \o
            [i \in 1..Len(structureChecks) |->
                [kind |-> "structure_row",
                 icon |-> IF Truthy(structureChecks[i].passed) THEN "pass" ELSE "fail",
                 \* check.name.replace('file_', '')
                 name |-> IF structureChecks[i].name[1] = "file_"
                          THEN Tail(structureChecks[i].name)
                          ELSE structureChecks[i].name]] \o
            <<[kind |-> "blank"],
              [kind |-> "header", text |-> t(tr, "header_best_practices")],
              [kind |-> "blank"]>> \o
            [i \in 1..Len(bpChecks) |->
                [kind |-> "row",
                 icon |-> IF bpChecks[i].severity = SEVERITY.SUCCESS THEN "pass"
                          ELSE IF bpChecks[i].severity = SEVERITY.WARNING THEN "warn"
                          ELSE "fail",
                 name |-> bpChecks[i].name,
                 message |-> IF bpChecks[i].message.text # "" THEN bpChecks[i].message
                             ELSE Msg("OK")]] \o
            RecommendationLines(r)]

\* formatOutput(results, format, translations): the rendered string
formatOutput(r, fmt, tr) ==
    IF fmt = "json" THEN JSONStringify(r)
    ELSE IF fmt = "markdown" THEN formatMarkdown(r, tr)
    ELSE formatText(r, tr)

\* recommendations with the README.md note ahead of the polyglot.json note
recommendationsReadmeFirst(r, tree) ==
    (IF Len(r.warnings) > 0 THEN <<"Address warnings to improve skill quality">>
     ELSE <<>>) \o
    (IF ~existsSync(tree, "README.md")
     THEN <<"Add README.md with documentation">> ELSE <<>>) \o
    (IF ~existsSync(tree, "polyglot.json")
     THEN <<"Add polyglot.json for internationalization support">> ELSE <<>>)

\* the recommendations checkSkill pushes after the last check
recommendations(r, tree) ==
    (IF Len(r.warnings) > 0 THEN <<"Address warnings to improve skill quality">>
     ELSE <<>>) \o
    (IF ~existsSync(tree, "polyglot.json")
     THEN <<"Add polyglot.json for internationalization support">> ELSE <<>>) \o
    (IF ~existsSync(tree, "README.md")
     THEN <<"Add README.md with documentation">> ELSE <<>>)

\* ------------------------------------------------------------- generator

\* the paths of a skill directory the commands touch, relative to it
Paths ==
    {".", "SKILL.md", "package.json", "README.md", "polyglot.json", ".skill.yml",
     "dist", "dist/cli", "dist/cli/index.js", "dist/analyzer", "locales",
     "src", "src/cli", "src/cli/index.js", "src/analyzer", "src/analyzer/index.js",
     ".gitignore", "LICENSE", "CONTRIBUTING.md", "CHANGELOG.md", "marketplace.json",
     "scripts", "references", "assets", "bunfig.toml"}

\* path.dirname, within the skill directory
Parent(p) ==
    CASE p \in {"dist/cli", "dist/analyzer"} -> "dist"
      [] p = "dist/cli/index.js" -> "dist/cli"
      [] p \in {"src/cli", "src/analyzer"} -> "src"
      [] p = "src/cli/index.js" -> "src/cli"
      [] p = "src/analyzer/index.js" -> "src/analyzer"
      [] OTHER -> "."

\* a path and the directories above it
Ancestors(p) ==
    {p, Parent(p), Parent(Parent(p)), Parent(Parent(Parent(p)))}

\* fs.mkdirSync(p, { recursive: true }): fails when p or a directory above it
\* is a file, creates the missing directories otherwise
CanMkdir(tree, p) == \A q \in Ancestors(p) : tree[q].kind # "file"

mkdirSync(tree, p) == [q \in Paths |-> IF q \in Ancestors(p) THEN Dir ELSE tree[q]]

\* fs.writeFileSync(p, content): fails when the directory of p is missing
\* (ENOENT) or p is a directory (EISDIR)
CanWrite(tree, p) == tree[Parent(p)].kind = "dir" /\ tree[p].kind # "dir"

writeFileSync(tree, p, content) == [tree EXCEPT ![p] = File(content)]

\* name.replace(/-/g, ' ')
DashesToSpaces(name) == [i \in 1..Len(name) |-> IF name[i] = "-" THEN " " ELSE name[i]]

\* name.split('-').map(word => word.charAt(0).toUpperCase() + word.slice(1)).join('')
skillClassName(name) ==
    LET kept == SelectSeq([i \in 1..Len(name) |-> i], LAMBDA i : name[i] # "-")
        upper(ch) == IF \E k \in 1..26 : LowerCaseLetters[k] = ch
                     THEN UpperCaseLetters[CHOOSE k \in 1..26 : LowerCaseLetters[k] = ch]
                     ELSE ch
    IN  [k \in 1..Len(kept) |->
            IF kept[k] = 1 \/ name[kept[k] - 1] = "-" THEN upper(name[kept[k]])
            ELSE name[kept[k]]]

\* generatePackageJson(name, className); the scripts and the development
\* dependencies, which no command reads, are left empty
generatePackageJson(name) ==
    Obj(<<Prop(Key.name, Str(name)),
          Prop(Key.version, Str(<<"1",".","0",".","0">>)),
          Prop(Key.description,
               Str(<<"A"," ","C","l","a","u","d","e"," ","s","k","i","l","l"," ","f","o","r"," ">>
                   \o DashesToSpaces(name))),
          Prop(Key.type, Str(<<"m","o","d","u","l","e">>)),
          Prop(Key.main, Str(CliEntryPoint)),
          Prop(Key.bin, Obj(<<Prop(name, Str(CliEntryPoint))>>)),
          Prop(<<"s","c","r","i","p","t","s">>, Obj(<<>>)),
          Prop(Key.keywords, Arr(<<Str(<<"c","l","a","u","d","e">>),
                                   Str(<<"s","k","i","l","l">>), Str(name)>>)),
          Prop(Key.author, Str(<<>>)),
          Prop(Key.license, Str(<<"M","I","T">>)),
          Prop(<<"d","e","p","e","n","d","e","n","c","i","e","s">>,
               Obj(<<Prop(<<"p","i","c","o","c","o","l","o","r","s">>,
                          Str(<<"^","1",".","1",".","1">>)),
                     Prop(<<"y","a","r","g","s">>, Str(<<"^","1","7",".","7",".","2">>))>>)),
          Prop(<<"d","e","v","D","e","p","e","n","d","e","n","c","i","e","s">>, Obj(<<>>))>>)

\* generatePolyglotJson(name, className): seven keys, each with a default ('')
\* and a zh entry; the zh texts stand as "zh"
generatePolyglotJson(name, className) ==
    LET entry(key, default, zh) ==
            Prop(key, Obj(<<Prop(<<>>, Str(default)), Prop(<<"z","h">>, Str(zh))>>))
    IN  Obj(<<entry(<<"s","k","i","l","l","_","n","a","m","e">>, className, <<>>),
              entry(<<"s","k","i","l","l","_","d","e","s","c","r","i","p","t","i","o","n">>,
                    <<"A"," ","C","l","a","u","d","e"," ","s","k","i","l","l"," ","f","o","r"," ">>
                    \o DashesToSpaces(name), <<>>),
              entry(<<"h","e","l","p","_","d","e","s","c","r","i","p","t","i","o","n">>,
                    <<"U","s","e"," ","t","h","i","s"," ","s","k","i","l","l"," ","t","o"," ">>
                    \o DashesToSpaces(name), <<>>),
              entry(<<"c","o","m","m","a","n","d","_","h","e","l","p">>,
                    <<"S","h","o","w"," ","h","e","l","p"," ","i","n","f","o","r","m","a","t","i","o","n">>,
                    <<"z","h">>),
              entry(<<"c","o","m","m","a","n","d","_","v","e","r","s","i","o","n">>,
                    <<"S","h","o","w"," ","v","e","r","s","i","o","n"," ","i","n","f","o","r","m","a","t","i","o","n">>,
                    <<"z","h">>),
              entry(<<"s","u","c","c","e","s","s","_","m","e","s","s","a","g","e">>,
                    <<"O","p","e","r","a","t","i","o","n"," ","c","o","m","p","l","e","t","e","d"," ","s","u","c","c","e","s","s","f","u","l","l","y">>,
                    <<"z","h">>),
              entry(<<"e","r","r","o","r","_","m","e","s","s","a","g","e">>,
                    <<"A","n"," ","e","r","r","o","r"," ","o","c","c","u","r","r","e","d">>,
                    <<"z","h">>)>>)

\* generateGitignore(): the text up to its "dist/" line (the lines after it
\* name no build output)
generateGitignore ==
    <<"#"," ","D","e","p","e","n","d","e","n","c","i","e","s","\n",
      "n","o","d","e","_","m","o","d","u","l","e","s","/","\n","\n",
      "#"," ","B","u","i","l","d"," ","o","u","t","p","u","t","\n",
      "d","i","s","t","/","\n">>

\* the filesystem calls of createSkill after the existence test, in program
\* order: the four mkdirSync, then the writeFileSync calls
createSkillCalls(name, tmpl) ==
    <<[op |-> "mkdir", path |-> "src/cli"], [op |-> "mkdir", path |-> "locales"],
      [op |-> "mkdir", path |-> "dist/cli"], [op |-> "mkdir", path |-> "dist/analyzer"],
      [op |-> "write", path |-> "package.json",
       content |-> JsonText(generatePackageJson(name))],
      [op |-> "write", path |-> "polyglot.json",
       content |-> JsonText(generatePolyglotJson(name, skillClassName(name)))],
      [op |-> "write", path |-> "src/cli/index.js", content |-> Generated("generateCli")],
      [op |-> "write", path |-> "README.md", content |-> Generated("generateReadme")],
      [op |-> "write", path |-> ".gitignore", content |-> Text(generateGitignore)],
      [op |-> "write", path |-> ".skill.yml", content |-> Generated("generateSkillYml")]>> \o
    (IF tmpl = "analyzer" \/ tmpl = "advanced"
     THEN <<[op |-> "write", path |-> "src/analyzer/index.js",
             content |-> Generated("generateAnalyzer")]>>
     ELSE <<>>) \o
    <<[op |-> "write", path |-> "bunfig.toml", content |-> Generated("generateBunfig")]>>

\* ------------------------------------------------- the directories checked

\* the name of the skill directory, and the directory it lies in
TargetName == <<"m","y","-","s","k","i","l","l">>

BasePath == << <<"s","k","i","l","l","s">> >>

\* path.join(basePath, name)
join(basePath, name) == basePath \o <<name>>

\* SKILL.md documents
SkillMdGood ==
    <<"-","-","-","\n","n","a","m","e",":"," ","x","\n",
      "d","e","s","c","r","i","p","t","i","o","n",":"," ","U","s","e"," ","w","h","e","n"," ","y","\n",
      "l","i","c","e","n","s","e",":"," ","M","I","T","\n","-","-","-","\n","b","o","d","y","\n">>

\* a header of 8 whitespace-delimited pieces, to be followed by further words
SkillMdLongHead ==
    <<"-","-","-","\n","n","a","m","e",":"," ","x","\n",
      "d","e","s","c","r","i","p","t","i","o","n",":"," ","u","s","e"," ","w","h","e","n","\n",
      "-","-","-","\n","b">>

SkillMdTexts ==
    {Text(SkillMdGood),
     \* no frontmatter; the empty document; a rule line after a heading
     Text(<<"#"," ","t","\n">>), Text(<<>>),
     Text(<<"#"," ","t","\n","-","-","-","\n","b">>),
     \* a header block that is never closed
     Text(<<"-","-","-","\n","n","a","m","e",":"," ","x","\n">>),
     \* a header block without any of the keys, and no body
     Text(<<"-","-","-","\n","f","o","o","\n","-","-","-","\n">>),
     \* the description on the line after its key
     Text(<<"-","-","-","\n","n","a","m","e",":"," ","x","\n",
            "d","e","s","c","r","i","p","t","i","o","n",":","\n"," "," ",
            "u","s","e"," ","w","h","e","n"," ","y","\n","-","-","-","\n","b">>),
     \* the description key with nothing after it
     Text(<<"-","-","-","\n","n","a","m","e",":"," ","x","\n",
            "d","e","s","c","r","i","p","t","i","o","n",":","\n","-","-","-","\n","b">>),
     \* no body after the header block
     Text(<<"-","-","-","\n","n","a","m","e",":"," ","x","\n",
            "d","e","s","c","r","i","p","t","i","o","n",":"," ",
            "U","s","e"," ","t","h","i","s"," ","s","k","i","l","l"," ","w","h","e","n"," ",
            "d","o","i","n","g"," ","X","\n","-","-","-","\n">>),
     \* a description that names no usage
     Text(<<"-","-","-","\n","n","a","m","e",":"," ","x","\n",
            "d","e","s","c","r","i","p","t","i","o","n",":"," ","y","\n","-","-","-","\n","b">>),
     \* WordLimit and WordLimit + 1 pieces
     LongText(SkillMdLongHead, WordLimit - 8), LongText(SkillMdLongHead, WordLimit - 7),
     \* WordLimit words after an empty first line
     LongText(<<"\n">> \o SkillMdLongHead, WordLimit - 8)}

\* a package.json object with the given name, type and bin
PackageWith(name, type, bin) ==
    Obj(<<Prop(Key.name, name), Prop(Key.version, Str(<<"1",".","0",".","0">>)),
          Prop(Key.description, Str(<<"d">>)), Prop(Key.type, type),
          Prop(Key.main, Str(CliEntryPoint)), Prop(Key.bin, bin)>>)

PackageJsonTexts ==
    LET name   == Str(TargetName)
        module == Str(moduleType)
    IN  {JsonText(generatePackageJson(TargetName)),
         \* bin a string: the entry point, another path
         JsonText(PackageWith(name, module, Str(CliEntryPoint))),
         JsonText(PackageWith(name, module, Str(<<"x">>))),
         \* bin a mapping without an entry for the name, with an empty, a null one
         JsonText(PackageWith(name, module, Obj(<<Prop(<<"o">>, Str(CliEntryPoint))>>))),
         JsonText(PackageWith(name, module, Obj(<<Prop(TargetName, Str(<<>>))>>))),
         JsonText(PackageWith(name, module, Obj(<<Prop(TargetName, Null)>>))),
         JsonText(PackageWith(name, module, Obj(<<Prop(TargetName, Str(<<"x">>))>>))),
         \* a name that is not kebab-case, a type that is not "module"
         JsonText(PackageWith(Str(<<"M","y","_","S","k","i","l","l">>), module,
                              Str(CliEntryPoint))),
         JsonText(PackageWith(name, Str(<<"c","o","m","m","o","n","j","s">>),
                              Str(CliEntryPoint))),
         \* no fields; JSON that is no object
         JsonText(Obj(<<>>)), JsonText(Null), JsonText(Arr(<<>>)), JsonText(Num(7)),
         \* truncated JSON, the empty file
         Text(<<"{">>), Text(<<>>)}

PolyglotTexts ==
    LET both == Obj(<<Prop(<<>>, Str(<<"x">>)), Prop(<<"z","h">>, Str(<<"y">>))>>)
        only == Obj(<<Prop(<<>>, Str(<<"x">>))>>)
        zh   == Obj(<<Prop(<<"z","h">>, Str(<<"y">>))>>)
    IN  {JsonText(generatePolyglotJson(TargetName, skillClassName(TargetName))),
         JsonText(Obj(<<Prop(<<"a">>, both), Prop(<<"b">>, only)>>)),
         JsonText(Obj(<<Prop(<<"a">>, only)>>)),
         JsonText(Obj(<<Prop(<<"a">>, zh)>>)),
         \* entries that are null or no objects
         JsonText(Obj(<<Prop(<<"a">>, Null)>>)),
         JsonText(Obj(<<Prop(<<"a">>, only), Prop(<<"b">>, Null)>>)),
         JsonText(Obj(<<Prop(<<"a">>, zh), Prop(<<"b">>, Null)>>)),
         JsonText(Obj(<<Prop(<<"a">>, Str(<<"h","i">>))>>)),
         JsonText(Obj(<<>>)), JsonText(Null), JsonText(Arr(<<>>)),
         Text(<<"{">>)}

\* a marketplace.json object with the given categories, marketplace and
\* repository, every other required field present
MarketplaceWith(categories, market, repository) ==
    Obj(<<Prop(Key.name, Str(TargetName)), Prop(Key.version, Str(<<"1",".","0",".","0">>)),
          Prop(Key.description, Str(<<"d">>)), Prop(Key.categories, categories),
          Prop(Key.keywords, Arr(<<Str(<<"k">>)>>)), Prop(Key.author, Str(<<"a">>)),
          Prop(Key.license, Str(<<"M","I","T">>)), Prop(Key.repository, repository),
          Prop(Key.homepage, Str(<<"h">>)), Prop(Key.bugs, Str(<<"b">>)),
          Prop(Key.marketplace, market)>>)

MarketplaceTexts ==
    LET cats == Arr(<<Str(<<"c">>)>>)
        smp  == Str(validMarketplaces[1])
        url  == Str(<<"h","t","t","p","s",":","/","/","x">>)
    IN  {JsonText(MarketplaceWith(cats, smp, url)),
         JsonText(MarketplaceWith(cats, smp, Str(<<"h","t","t","p",":","/","/","x">>))),
         \* a repository that is an object, as package.json writes it
         JsonText(MarketplaceWith(cats, smp, Obj(<<Prop(<<"u","r","l">>, url)>>))),
         JsonText(MarketplaceWith(cats,
                      Str(<<"u","n","k","n","o","w","n","-","m","a","r","k","e","t">>), url)),
         JsonText(MarketplaceWith(Arr(<<>>), smp, url)),
         JsonText(MarketplaceWith(Str(<<"c">>), smp, url)),
         JsonText(Obj(<<>>)), JsonText(Null),
         Text(<<"{">>)}

\* what may stand at an inspected path of the skill directory
Options(p) ==
    CASE p = "SKILL.md" -> {Absent, Dir} \cup {File(x) : x \in SkillMdTexts}
      [] p = "package.json" -> {Absent, Dir} \cup {File(x) : x \in PackageJsonTexts}
      [] p = "polyglot.json" -> {Absent, Dir} \cup {File(x) : x \in PolyglotTexts}
      [] p = "marketplace.json" -> {Absent, Dir} \cup {File(x) : x \in MarketplaceTexts}
      [] p = "dist/cli/index.js" ->
            {Absent, Dir,
             File(Text(<<"#","!","/","u","s","r","/","b","i","n","/","e","n","v"," ",
                         "n","o","d","e","\n","i","m","p","o","r","t"," ","y","a","r","g","s">>)),
             File(Text(<<"a","r","g","v">>)), File(Text(<<"x">>))}
      [] p = ".gitignore" ->
            {Absent, Dir, File(Text(generateGitignore)),
             File(Text(<<"n","o","d","e","_","m","o","d","u","l","e","s","/","\n">>))}
      [] p \in {"scripts", "references", "assets"} -> {Absent, Dir, File(Text(<<>>))}
      [] p \in {"locales", "src"} -> {Absent, Dir}
      [] OTHER -> {Absent, Dir, File(Text(<<"x">>))}

\* the paths checkSkill inspects below the skill directory
InspectedPaths ==
    {"SKILL.md", "package.json", "README.md", "polyglot.json", ".skill.yml",
     "dist/cli/index.js", "locales", "src", ".gitignore", "LICENSE", "CONTRIBUTING.md",
     "CHANGELOG.md", "marketplace.json", "scripts", "references", "assets"}

\* no skill directory at all
NoTree == [p \in Paths |-> Absent]

\* a complete skill: every inspected path present and well-formed
CompleteTree ==
    [p \in Paths |->
        CASE p \in {".", "dist", "dist/cli", "locales", "src", "scripts", "references",
                    "assets"} -> Dir
          [] p = "SKILL.md" -> File(Text(SkillMdGood))
          [] p = "package.json" -> File(JsonText(generatePackageJson(TargetName)))
          [] p = "polyglot.json" ->
                File(JsonText(generatePolyglotJson(TargetName, skillClassName(TargetName))))
          [] p = "marketplace.json" ->
                File(JsonText(MarketplaceWith(Arr(<<Str(<<"c">>)>>), Str(validMarketplaces[1]),
                                              Str(<<"h","t","t","p","s",":","/","/","x">>))))
          [] p = "dist/cli/index.js" ->
                File(Text(<<"#","!","/","u","s","r","/","b","i","n","/","e","n","v"," ",
                            "n","o","d","e","\n","i","m","p","o","r","t"," ","y","a","r","g","s">>))
          [] p = ".gitignore" -> File(Text(generateGitignore))
          [] p \in {"README.md", ".skill.yml", "LICENSE", "CONTRIBUTING.md", "CHANGELOG.md"} ->
                File(Text(<<"x">>))
          [] OTHER -> Absent]

\* the complete skill with the paths of S replaced as c chooses
Varied(S, c) == [p \in Paths |-> IF p \in S THEN c[p] ELSE CompleteTree[p]]

\* the trees a run starts from: no directory, a regular file in its place, or
\* the complete skill with at most MaxVaried inspected paths replaced
InitialTrees ==
    {NoTree, [NoTree EXCEPT !["."] = File(Text(<<"x">>))]} \cup
    UNION {{Varied(S, c) : c \in {f \in [S -> UNION {Options(p) : p \in S}] :
                                    \A p \in S : f[p] \in Options(p)}} :
           S \in {T \in SUBSET InspectedPaths : Cardinality(T) <= MaxVaried}}

\* the dictionaries getTranslations() may return: none, or the tool's own
Translations ==
    {<<>>,
     [info_checking_structure |-> "Checking skill structure...",
      error_no_skill_dir |-> "Skill directory not found: {path}",
      validation_passed |-> "All validations passed!",
      validation_failed |-> ""]}

Formats == {"text", "json", "markdown"}

Templates == {"basic", "advanced", "analyzer"}

\* one filesystem call of createSkill, applied to the tree
Perform(tr, call) ==
    IF call.op = "mkdir" THEN mkdirSync(tr, call.path)
    ELSE writeFileSync(tr, call.path, call.content)

\* whether the call succeeds on the tree
CanPerform(tr, call) ==
    IF call.op = "mkdir" THEN CanMkdir(tr, call.path) ELSE CanWrite(tr, call.path)

\* ------------------------------------------------------------ the commands
\* tree         the filesystem below the skill directory
\* pc           where the running command stands: a section of checkSkill,
\*              a later stage, "exited", "rejected" ("idle": none has run)
\* command      the command that runs or ran last
\* translations, format, template   the options the handler passes
\* step         the next step of the section of checkSkill that pc names, the
\*              next filesystem call of createSkill
\* results      the results object of checkSkill
\* ret          the value checkSkill or createSkill resolved with
\* stdout       what the process has written to standard output
\* options      the options of the generator call that ran last (<<>>: none)
\* callCount    the number of generator calls made

VARIABLES tree, pc, command, translations, format, template, options, callCount,
          step, results, ret, stdout

vars ==
    <<tree, pc, command, translations, format, template, options, callCount, step, results,
      ret, stdout>>

Init ==
    /\ tree \in InitialTrees
    /\ pc = "idle"
    /\ command = "none"
    /\ translations = <<>>
    /\ format = "text"
    /\ template = "basic"
    /\ options = <<>>
    /\ callCount = 0
    /\ step = 1
    /\ results = Undefined
    /\ ret = Undefined
    /\ stdout = <<>>

\* no command is running: a new process may be started
Stopped == pc \in {"idle", "exited", "rejected"}

\* `skills-builder check skills/my-skill --format=...`: the handler reads the
\* translations and calls checkSkill, which builds its results object
CheckCommand ==
    /\ Stopped
    /\ \E tr \in Translations, fmt \in Formats :
          /\ translations' = tr
          /\ format' = fmt
    /\ command' = "check"
    /\ template' = "basic"
    /\ step' = 1
    /\ results' = NewResults(join(BasePath, TargetName))
    /\ ret' = Undefined
    /\ stdout' = <<>>
    /\ pc' = Sections[1]
    /\ UNCHANGED <<tree, options, callCount>>

\* control is in the given section of checkSkill: its next step is a
\* console.log, an addCheck, the early return, or an exception that nothing
\* catches (the promise checkSkill returned is rejected); after its last step
\* control enters the next section
SectionStep(section) ==
    /\ pc = section
    /\ LET steps == SectionSteps(section, tree, translations)
       IN  IF step > Len(steps)
           THEN /\ pc' = After(section)
                /\ step' = 1
                /\ UNCHANGED <<results, stdout>>
           ELSE /\ step' = step + 1
                /\ LET s == steps[step]
                   IN  \/ /\ s.ev = "log"
                          /\ stdout' = Append(stdout, [log |-> s.text])
                          /\ UNCHANGED <<results, pc>>
                       \/ /\ s.ev = "check"
                          /\ results' = addCheck(results, s.check)
                          /\ UNCHANGED <<stdout, pc>>
                       \/ /\ s.ev = "return"
                          /\ pc' = "formatOutput"
                          /\ UNCHANGED <<results, stdout>>
                       \/ /\ s.ev = "throw"
                          /\ pc' = "rejected"
                          /\ UNCHANGED <<results, stdout>>
    /\ UNCHANGED <<tree, command, translations, format, template, options, callCount,
                 ret>>

DirectoryExistsStep == SectionStep("DirectoryExists")

RequiredFilesStep == SectionStep("RequiredFiles")

SkillMdStep == SectionStep("SkillMd")

RecommendedFilesStep == SectionStep("RecommendedFiles")

PackageJsonStep == SectionStep("PackageJson")

PolyglotStep == SectionStep("Polyglot")

CliEntryStep == SectionStep("CliEntry")

BestPracticesStep == SectionStep("BestPractices")

MarketplaceStep == SectionStep("Marketplace")

BundledResourcesStep == SectionStep("BundledResources")

ConciseContentStep == SectionStep("ConciseContent")

\* Generate recommendations, after the last check
GenerateRecommendations ==
    /\ pc = "recommendations"
    /\ results' = [results EXCEPT !.recommendations = recommendations(results, tree)]
    /\ pc' = "formatOutput"
    /\ UNCHANGED <<tree, command, translations, format, template, options, callCount,
                 step, ret, stdout>>

\* return formatOutput(results, format, translations)
FormatOutput ==
    /\ pc = "formatOutput"
    /\ ret' = formatOutput(results, format, translations)
    /\ pc' = "print"
    /\ UNCHANGED <<tree, command, translations, format, template, options, callCount,
                 step, results, stdout>>

\* console.log(result) of the check handler
CheckPrint ==
    /\ pc = "print"
    /\ command = "check"
    /\ stdout' = Append(stdout, ret)
    /\ pc' = "exited"
    /\ UNCHANGED <<tree, command, translations, format, template, options, callCount,
                 step, results, ret>>

\* `skills-builder create my-skill --path=skills --template=...`
CreateCommand ==
    /\ Stopped
    /\ \E tr \in Translations, tmpl \in Templates :
          /\ translations' = tr
          /\ template' = tmpl
    /\ command' = "create"
    /\ format' = "text"
    /\ step' = 1
    /\ results' = Undefined
    /\ ret' = Undefined
    /\ stdout' = <<>>
    /\ pc' = "createSkill"
    /\ UNCHANGED <<tree, options, callCount>>

\* Check if directory already exists
CreateExistsTest ==
    /\ pc = "createSkill"
    /\ IF existsSync(tree, ".")
       THEN /\ ret' = [success |-> FALSE, error |-> "Directory already exists: ${skillPath}"]
            /\ pc' = "print"
       ELSE /\ pc' = "createCalls"
            /\ ret' = ret
    /\ UNCHANGED <<tree, command, translations, format, template, options, callCount,
                 step, results, stdout>>

\* the next filesystem call of createSkill, of the given kind; a call that
\* fails throws, and nothing in createSkill or the handler catches it
CreateCall(op) ==
    /\ pc = "createCalls"
    /\ LET calls == createSkillCalls(TargetName, template)
       IN  /\ step <= Len(calls)
           /\ calls[step].op = op
           /\ IF CanPerform(tree, calls[step])
              THEN /\ tree' = Perform(tree, calls[step])
                   /\ pc' = pc
              ELSE /\ pc' = "rejected"
                   /\ tree' = tree
    /\ step' = step + 1
    /\ UNCHANGED <<command, translations, format, template, options, callCount, results,
                 ret, stdout>>

CreateMkdir == CreateCall("mkdir")

CreateWriteFile == CreateCall("write")

\* the object createSkill returns after its last write
CreateReturn ==
    /\ pc = "createCalls"
    /\ step > Len(createSkillCalls(TargetName, template))
    /\ ret' = [success |-> TRUE, skillPath |-> join(BasePath, TargetName),
               skillName |-> TargetName,
               message |-> t(translations, "success_skill_created")]
    /\ pc' = "print"
    /\ UNCHANGED <<tree, command, translations, format, template, options, callCount,
                 step, results, stdout>>

\* console.log(result) of the create handler
CreatePrint ==
    /\ pc = "print"
    /\ command = "create"
    /\ stdout' = Append(stdout, ret)
    /\ pc' = "exited"
    /\ UNCHANGED <<tree, command, translations, format, template, options, callCount,
                 step, results, ret>>

Next ==
    \/ CheckCommand
    \/ DirectoryExistsStep
    \/ RequiredFilesStep
    \/ SkillMdStep
    \/ RecommendedFilesStep
    \/ PackageJsonStep
    \/ PolyglotStep
    \/ CliEntryStep
    \/ BestPracticesStep
    \/ MarketplaceStep
    \/ BundledResourcesStep
    \/ ConciseContentStep
    \/ GenerateRecommendations
    \/ FormatOutput
    \/ CheckPrint
    \/ CreateCommand
    \/ CreateExistsTest
    \/ CreateMkdir
    \/ CreateWriteFile
    \/ CreateReturn
    \/ CreatePrint

Spec == Init /\ [][Next]_vars

\* ----------------------------------------------------------- properties

\* a checkSkill run has started: results is its results object
InCheck == command = "check"

\* checkSkill has returned its report
Reported == command = "check" /\ pc \in {"print", "exited"}

\* the tree createSkill leaves when all of its calls succeed on a directory
\* that did not exist
RECURSIVE PerformAll(_, _)
PerformAll(tr, calls) ==
    IF calls = <<>> THEN tr ELSE PerformAll(Perform(tr, Head(calls)), Tail(calls))

\* C1: in every state of a checkSkill run, after each append and in the
\* returned report, results.success holds exactly when no entry of
\* results.checks has severity error; and within one run success never turns
\* from false back to true.
C1_SuccessIffNoError ==
    /\ [](InCheck =>
            (results.success <=>
                \A i \in 1..Len(results.checks) :
                    results.checks[i].severity # SEVERITY.ERROR))
    /\ [][(InCheck /\ ~Stopped /\ ~results.success) => ~results'.success]_vars

\* a finished run in which an error was appended and other checks after it
C1_Witness ==
    /\ Reported
    /\ ~results.success
    /\ \E i, j \in 1..Len(results.checks) :
          /\ i < j
          /\ results.checks[i].severity = SEVERITY.ERROR
          /\ results.checks[j].severity # SEVERITY.ERROR

\* C2: when the target path does not exist, the run never enters a section
\* after the existence gate, and its report holds exactly one check
\* (structure / directory_exists, passed false, severity error), success
\* false, no warnings and no recommendations.
C2_MissingTarget ==
    (InCheck /\ ~existsSync(tree, ".")) =>
        /\ pc \in {"DirectoryExists", "formatOutput", "print", "exited"}
        /\ Len(results.checks) <= 1
        /\ pc # "DirectoryExists" =>
              /\ Len(results.checks) = 1
              /\ results.checks[1].category = "structure"
              /\ results.checks[1].name = <<"directory_exists">>
              /\ results.checks[1].passed = Bool(FALSE)
              /\ results.checks[1].severity = SEVERITY.ERROR
              /\ results.errors = results.checks
              /\ results.success = FALSE
              /\ results.warnings = <<>>
              /\ results.recommendations = <<>>

\* the report for a missing target has been printed
C2_Witness == InCheck /\ ~existsSync(tree, ".") /\ pc = "exited"

\* C3: checkSkill never ends with an exception, whatever stands at the
\* inspected paths (nothing, a file, a directory): every run that stops has
\* returned a rendered report.
C3_Total == InCheck => (pc # "rejected" /\ (Stopped => ret # Undefined))

\* C4: the standard output of one check invocation is the rendered report,
\* printed once when the handler ends, and nothing before it.
C4_StdoutIsReport == InCheck => stdout = (IF pc = "exited" THEN <<ret>> ELSE <<>>)

\* C5: parsing the output of format json gives back the report field for
\* field, and every check of it carries category, name, passed, severity and
\* message, with passed a boolean.
C5_JsonRoundTrip ==
    (Reported /\ format = "json") =>
        LET parsed == JSONParse(ret)
        IN  /\ \A i \in 1..Len(parsed.checks) :
                  /\ DOMAIN parsed.checks[i] =
                        {"category", "name", "passed", "severity", "message"}
                  /\ parsed.checks[i].passed.t = "boolean"
            /\ parsed = results

\* the position of a check in the order of the steps, the word-count check
\* standing at the position given
StepRank(check, concise) ==
    CASE check.category = "structure" /\ check.name = <<"directory_exists">> -> 0
      [] check.category = "structure" /\ check.name = <<"file_", "SKILL.md">> -> 1
      [] check.category = "SKILL.md" /\ check.name = <<"concise_content">> -> concise
      [] check.category = "SKILL.md" -> 2
      [] check.category = "structure" -> 3
      [] check.category = "package.json" -> 4
      [] check.category = "polyglot.json" -> 5
      [] check.category = "cli" -> 6
      [] check.category = "best_practices" -> 7
      [] check.category = "marketplace" -> 8
      [] check.category = "bundled_resources" -> 9

\* results.checks is ordered by step, the word-count check at the given rank
InStepOrder(concise) ==
    \A i, j \in 1..Len(results.checks) :
        i < j => StepRank(results.checks[i], concise) <= StepRank(results.checks[j], concise)

\* C6 as stated: the checks follow the order required files, all SKILL.md
\* checks including concise_content, recommended files, manifest,
\* localization, entry point, conventions, marketplace, bundled resources,
\* and nothing follows the bundled-resource checks.
C6_Original == (InCheck /\ existsSync(tree, ".")) => InStepOrder(2)

\* C6: the checks follow the order required files, the SKILL.md checks other
\* than concise_content, recommended files, manifest, localization, entry
\* point, conventions, marketplace, bundled resources; concise_content comes
\* last, after the bundled-resource checks, whenever SKILL.md exists.
C6_StepOrder ==
    (InCheck /\ existsSync(tree, ".")) =>
        /\ InStepOrder(10)
        /\ (Reported /\ existsSync(tree, "SKILL.md")) =>
              /\ results.checks # <<>>
              /\ results.checks[Len(results.checks)].name = <<"concise_content">>

\* a report with SKILL.md, marketplace and bundled-resource checks
C6_Witness ==
    /\ Reported
    /\ \E i, j, k \in 1..Len(results.checks) :
          /\ results.checks[i].name = <<"has_frontmatter">>
          /\ results.checks[j].name = <<"valid_repository_url">>
          /\ results.checks[k].category = "bundled_resources"
    /\ results.checks[Len(results.checks)].name = <<"concise_content">>

\* C7: in every state of a run, results.errors is the subsequence of
\* results.checks with severity error and results.warnings the subsequence
\* with severity warning, in the order of the checks.
C7_SeverityViews ==
    InCheck =>
        /\ results.errors = SelectSeq(results.checks, LAMBDA c : c.severity = SEVERITY.ERROR)
        /\ results.warnings =
              SelectSeq(results.checks, LAMBDA c : c.severity = SEVERITY.WARNING)

\* a report with two errors, a warning, an info and a success check
C7_Witness ==
    /\ Reported
    /\ Len(results.errors) >= 2
    /\ Len(results.warnings) >= 1
    /\ \E i, j \in 1..Len(results.checks) :
          /\ results.checks[i].severity = SEVERITY.INFO
          /\ results.checks[j].severity = SEVERITY.SUCCESS

\* C8: every check appended has passed false when its severity is error and
\* passed true when its severity is success.
C8_SeverityPassed ==
    InCheck =>
        \A i \in 1..Len(results.checks) :
            /\ results.checks[i].severity = SEVERITY.ERROR =>
                  results.checks[i].passed = Bool(FALSE)
            /\ results.checks[i].severity = SEVERITY.SUCCESS =>
                  results.checks[i].passed = Bool(TRUE)

\* a report that holds an error from the SKILL.md checks, a successful
\* bin_correct and the word-count check
C8_Witness ==
    /\ Reported
    /\ \E i, j, k \in 1..Len(results.checks) :
          /\ results.checks[i].category = "SKILL.md"
          /\ results.checks[i].severity = SEVERITY.ERROR
          /\ results.checks[j].name = <<"bin_correct">>
          /\ results.checks[j].severity = SEVERITY.SUCCESS
          /\ results.checks[k].name = <<"concise_content">>

\* C9: checkSkill on the directory createSkill made with the basic template,
\* where none was before, reports success.
C9_CreateThenCheck ==
    (InCheck /\ Stopped /\ tree = PerformAll(NoTree, createSkillCalls(TargetName, "basic"))) =>
        /\ pc = "exited"
        /\ results.success

\* C10: createSkill with the analyzer or the advanced template on a directory
\* that does not exist never ends with an exception; it returns success and
\* leaves src/analyzer/index.js beside every file of the basic template.
C10_AnalyzerTemplate ==
    (command = "create" /\ template \in {"analyzer", "advanced"}) =>
        /\ pc # "rejected"
        /\ (pc = "exited" /\ ret.success) =>
              \A p \in {"src/analyzer/index.js", "package.json", "polyglot.json",
                        "src/cli/index.js", "README.md", ".gitignore", ".skill.yml",
                        "bunfig.toml"} : tree[p].kind = "file"

\* the checks of a category, in the order they were appended
ChecksIn(category) == SelectSeq(results.checks, LAMBDA c : c.category = category)

\* the checks with a given name
ChecksNamed(name) == SelectSeq(results.checks, LAMBDA c : c.name = <<name>>)

\* the positions of control in a checkSkill run that gets past the gate
Positions == Sections \o <<"recommendations", "formatOutput", "print", "exited">>

\* a run on an existing target in which control has left the given section
\* (it is in a later section, or checkSkill has returned)
Left(section) ==
    /\ InCheck
    /\ existsSync(tree, ".")
    /\ \E i, j \in 1..Len(Positions) :
          /\ Positions[i] = section
          /\ Positions[j] = pc
          /\ i < j

\* the file at p holds text that JSON.parse rejects
Unparseable(p) ==
    /\ tree[p].kind = "file"
    /\ JSONParse(readFileSync(tree, p)) = Thrown

\* C11: when package.json exists and its content does not parse as JSON, the
\* only check of category package.json is valid_json with severity error
\* (exactly one once the step is done; no field_*, name_format, is_module or
\* bin_correct), and control goes on from the package.json step to the
\* localization step.
C11_ManifestParseFailure ==
    /\ []((InCheck /\ Unparseable("package.json")) =>
            /\ \A i \in 1..Len(results.checks) :
                  results.checks[i].category = "package.json" =>
                      /\ results.checks[i].name = <<"valid_json">>
                      /\ results.checks[i].severity = SEVERITY.ERROR
            /\ Len(ChecksIn("package.json")) <= 1
            /\ Left("PackageJson") => Len(ChecksIn("package.json")) = 1)
    /\ [][(InCheck /\ Unparseable("package.json") /\ pc = "PackageJson") =>
            pc' \in {"PackageJson", "Polyglot"}]_vars

\* a report on a directory with an unparseable package.json, holding the
\* valid_json error and the checks of the later steps
C11_Witness ==
    /\ Reported
    /\ Unparseable("package.json")
    /\ Len(ChecksNamed("valid_json")) = 1
    /\ ChecksIn("polyglot.json") # <<>>
    /\ ChecksIn("bundled_resources") # <<>>

\* the file at p holds the JSON text of an object
ParsesAsObject(p) ==
    /\ tree[p].kind = "file"
    /\ JSONParse(readFileSync(tree, p)).t = "object"

NoFrontmatter ==
    /\ tree["SKILL.md"].kind = "file"
    /\ ~MatchAt(Chars(readFileSync(tree, "SKILL.md")), Dashes, 0)

HasFrontmatter ==
    /\ tree["SKILL.md"].kind = "file"
    /\ MatchAt(Chars(readFileSync(tree, "SKILL.md")), Dashes, 0)

\* the header block of SKILL.md: the text after the opening delimiter, up to
\* the closing delimiter or, when there is none, to the end of the document
HeaderBlock ==
    LET content == Chars(readFileSync(tree, "SKILL.md"))
        closing == IndexOf(content, Dashes, 4)
    IN  Substring(content, 4, IF closing < 0 THEN Len(content) ELSE closing)

\* C14: whenever SKILL.md exists and begins with '---', the report holds one
\* frontmatter_has_name and one frontmatter_has_description check, each with
\* severity success when its key occurs in the header block and error when it
\* does not, also when the header block has no closing delimiter.
C14_HeaderKeys ==
    (Left("SkillMd") /\ HasFrontmatter) =>
        /\ Len(ChecksNamed("frontmatter_has_name")) = 1
        /\ ChecksNamed("frontmatter_has_name")[1].severity =
              (IF Includes(HeaderBlock, <<"n","a","m","e",":">>)
               THEN SEVERITY.SUCCESS ELSE SEVERITY.ERROR)
        /\ Len(ChecksNamed("frontmatter_has_description")) = 1
        /\ ChecksNamed("frontmatter_has_description")[1].severity =
              (IF Includes(HeaderBlock, <<"d","e","s","c","r","i","p","t","i","o","n",":">>)
               THEN SEVERITY.SUCCESS ELSE SEVERITY.ERROR)

\* the remainder of the line of s that holds the first 'description:': the
\* text after the key up to the next line terminator
DescriptionLine(s) ==
    LET key   == <<"d","e","s","c","r","i","p","t","i","o","n",":">>
        start == IndexOf(s, key, 0) + Len(key)
        ends  == {i \in start..(Len(s) - 1) : IsLineTerminator(s[i + 1])}
    IN  Substring(s, start, IF ends = {} THEN Len(s)
                            ELSE CHOOSE i \in ends : \A k \in ends : i <= k)

\* s holds, in any letter case, one of the phrases that name a usage
NamesUsage(s) ==
    \E phrase \in {<<"u","s","e"," ","w","h","e","n">>,
                   <<"u","s","e"," ","t","h","i","s"," ","s","k","i","l","l">>,
                   <<"s","h","o","u","l","d"," ","b","e"," ","u","s","e","d">>,
                   <<"w","h","e","n"," ","t","o">>} :
        Includes(ToLowerCase(s), phrase)

\* C15: whenever the description key occurs in the header block, the report
\* holds exactly one describes_when_to_use check, with severity success when
\* the remainder of the line that holds 'description:' names a usage and
\* warning otherwise; the lines after it have no influence.
C15_DescriptionLine ==
    (Left("SkillMd") /\ HasFrontmatter
        /\ Includes(HeaderBlock, <<"d","e","s","c","r","i","p","t","i","o","n",":">>)) =>
        /\ Len(ChecksNamed("describes_when_to_use")) = 1
        /\ ChecksNamed("describes_when_to_use")[1].severity =
              (IF NamesUsage(DescriptionLine(HeaderBlock))
               THEN SEVERITY.SUCCESS ELSE SEVERITY.WARNING)

\* the number of whitespace-delimited words of s: its maximal runs of
\* characters that are no whitespace
WordCount(s) ==
    Cardinality({i \in 1..Len(s) : ~IsWs(s[i]) /\ (i = 1 \/ IsWs(s[i - 1]))})

\* C16: when SKILL.md exists, the report holds one concise_content check, with
\* severity success when the document has at most 5000 whitespace-delimited
\* words and warning when it has more; leading and trailing whitespace and the
\* empty document contribute no words.
C16_WordCount ==
    (Reported /\ existsSync(tree, ".") /\ tree["SKILL.md"].kind = "file") =>
        /\ Len(ChecksNamed("concise_content")) = 1
        /\ ChecksNamed("concise_content")[1].severity =
              (IF WordCount(Chars(readFileSync(tree, "SKILL.md"))) <= WordLimit
               THEN SEVERITY.SUCCESS ELSE SEVERITY.WARNING)

\* C17 as stated: has_marketplace_json is appended exactly once in a run on
\* an existing target, with severity info whether marketplace.json exists or
\* not.
C17_Original ==
    Left("Marketplace") =>
        /\ Len(ChecksNamed("has_marketplace_json")) = 1
        /\ ChecksNamed("has_marketplace_json")[1].severity = SEVERITY.INFO

\* C17: has_marketplace_json is appended at most once, exactly once when the
\* marketplace step has run, with severity success when marketplace.json
\* exists and info when it does not; never error or warning.
C17_MarketplacePresence ==
    (InCheck /\ existsSync(tree, ".")) =>
        /\ Len(ChecksNamed("has_marketplace_json")) <= 1
        /\ Left("Marketplace") => Len(ChecksNamed("has_marketplace_json")) = 1
        /\ \A i \in 1..Len(results.checks) :
              results.checks[i].name = <<"has_marketplace_json">> =>
                  /\ results.checks[i].category = "marketplace"
                  /\ results.checks[i].severity =
                        (IF existsSync(tree, "marketplace.json")
                         THEN SEVERITY.SUCCESS ELSE SEVERITY.INFO)

\* a report on a directory with a marketplace.json: the presence check is a
\* success
C17_Witness ==
    /\ Reported
    /\ existsSync(tree, "marketplace.json")
    /\ Len(ChecksNamed("has_marketplace_json")) = 1
    /\ ChecksNamed("has_marketplace_json")[1].severity = SEVERITY.SUCCESS

\* the bundled-resource check the rules call for at position i
ResourceCheckAt(i) ==
    [category |-> "bundled_resources",
     name     |-> <<"has_", BUNDLED_RESOURCES[i]>>,
     passed   |-> Bool(TRUE),
     severity |-> IF tree[BUNDLED_RESOURCES[i]].kind = "dir"
                  THEN SEVERITY.SUCCESS ELSE SEVERITY.INFO]

SameCheck(c, d) ==
    /\ c.category = d.category
    /\ c.name = d.name
    /\ c.passed = d.passed
    /\ c.severity = d.severity

\* C18: the checks of category bundled_resources are has_scripts,
\* has_references, has_assets in that order, all three once the step is done,
\* each with passed true and severity success when the path is a directory and
\* info otherwise; none is filed under errors or warnings, and the step leaves
\* success, errors and warnings as they were.
C18_BundledResources ==
    /\ []((InCheck /\ existsSync(tree, ".")) =>
            /\ Len(ChecksIn("bundled_resources")) <= Len(BUNDLED_RESOURCES)
            /\ \A i \in 1..Len(ChecksIn("bundled_resources")) :
                  SameCheck(ChecksIn("bundled_resources")[i], ResourceCheckAt(i))
            /\ Left("BundledResources") =>
                  Len(ChecksIn("bundled_resources")) = Len(BUNDLED_RESOURCES)
            /\ \A i \in 1..Len(results.errors) :
                  results.errors[i].category # "bundled_resources"
            /\ \A i \in 1..Len(results.warnings) :
                  results.warnings[i].category # "bundled_resources")
    /\ [][(InCheck /\ pc = "BundledResources") =>
            /\ results'.success = results.success
            /\ results'.errors = results.errors
            /\ results'.warnings = results.warnings]_vars

\* a report on a directory where one resource path is a regular file and
\* another is a directory
C18_Witness ==
    /\ Reported
    /\ Len(ChecksIn("bundled_resources")) = 3
    /\ \E i \in 1..3 : tree[BUNDLED_RESOURCES[i]].kind = "file"
    /\ \E i \in 1..3 : tree[BUNDLED_RESOURCES[i]].kind = "dir"

\* the notes the rules call for, given the warnings and the files present
NotesDue ==
    (IF results.warnings # <<>>
     THEN <<"Address warnings to improve skill quality">> ELSE <<>>) \o
    (IF tree["polyglot.json"].kind = "absent"
     THEN <<"Add polyglot.json for internationalization support">> ELSE <<>>) \o
    (IF tree["README.md"].kind = "absent"
     THEN <<"Add README.md with documentation">> ELSE <<>>)

\* C19: in a run on an existing target, recommendations is empty until every
\* check has been appended; it is then set once to the warnings note iff
\* warnings is non-empty, the polyglot.json note iff polyglot.json is absent
\* and the README.md note iff README.md is absent, in this order; it is
\* non-empty iff warnings is non-empty, and no check is appended afterwards.
C19_Recommendations ==
    /\ []((InCheck /\ existsSync(tree, ".")) =>
            /\ ~Left("recommendations") => results.recommendations = <<>>
            /\ Left("recommendations") =>
                  /\ results.recommendations = NotesDue
                  /\ (results.recommendations # <<>>) <=> (results.warnings # <<>>))
    /\ [][(InCheck /\ ~Stopped /\ existsSync(tree, ".")) =>
            /\ results'.recommendations # results.recommendations =>
                  pc = "recommendations"
            /\ Left("recommendations") =>
                  /\ results'.checks = results.checks
                  /\ results'.warnings = results.warnings]_vars

\* a report on a directory without README.md: the warnings note and the
\* README.md note, in this order
C19_Witness ==
    /\ Reported
    /\ tree["README.md"].kind = "absent"
    /\ results.recommendations =
          <<"Address warnings to improve skill quality",
            "Add README.md with documentation">>

\* a report has been rendered as text
TextReported == Reported /\ format \notin {"json", "markdown"}

\* the lines the text rendering owes to the checks: one line per check, in
\* order, and a message line after each check whose passed is false
TextLinesDue ==
    Flatten([i \in 1..Len(results.checks) |->
        <<[kind |-> "check", category |-> results.checks[i].category,
           name |-> results.checks[i].name]>> \o
        (IF results.checks[i].passed = Bool(FALSE)
         THEN <<[kind |-> "message", message |-> results.checks[i].message]>>
         ELSE <<>>)])

\* a rendered line is the line that is due (the glyph is left open)
IsLineDue(line, due) ==
    /\ line.kind = due.kind
    /\ due.kind = "check" => line.category = due.category /\ line.name = due.name
    /\ due.kind = "message" => line.message = due.message

\* the number of lines ahead of the first check line
TextHeaderLength == IF results.warnings # <<>> THEN 9 ELSE 8

\* C20: the text rendering holds, after the header, one line per check in
\* results.checks order with its category and name, and a message line
\* directly after a check line exactly for the checks with passed == false;
\* the summary line is the passed line iff results.success, and the
\* warnings-count line appears iff results.warnings is non-empty.
C20_TextRendering ==
    TextReported =>
        LET lines == ret.lines
            rest  == Len(lines) - TextHeaderLength -
                     (IF results.recommendations # <<>>
                      THEN 2 + Len(results.recommendations) ELSE 0)
        IN  /\ (lines[5].kind = "passed") <=> results.success
            /\ (lines[5].kind = "failed") <=> ~results.success
            /\ (\E i \in 1..Len(lines) : lines[i].kind = "warnings")
                  <=> (results.warnings # <<>>)
            /\ lines[TextHeaderLength].kind = "rule"
            /\ rest = Len(TextLinesDue)
            /\ \A i \in 1..Len(TextLinesDue) :
                  i <= rest => IsLineDue(lines[TextHeaderLength + i], TextLinesDue[i])

\* a report has been rendered as markdown
MarkdownReported == Reported /\ format = "markdown"

\* the markdown rendering holds a row that names the check
HasMarkdownRow(check) ==
    \E k \in 1..Len(ret.lines) :
        \/ /\ ret.lines[k].kind = "structure_row"
           /\ check.category = "structure"
           /\ ret.lines[k].name \in {check.name, Tail(check.name)}
        \/ /\ ret.lines[k].kind = "row"
           /\ ret.lines[k].name = check.name

\* C21: the markdown rendering holds a row for every check with
\* passed == false, whatever its category, so the checks of severity error
\* that have a row are as many as the Errors count of the summary block.
C21_MarkdownSurfacesFailures ==
    MarkdownReported =>
        /\ \A i \in 1..Len(results.checks) :
              results.checks[i].passed = Bool(FALSE) => HasMarkdownRow(results.checks[i])
        /\ \E k \in 1..Len(ret.lines) :
              /\ ret.lines[k].kind = "errors"
              /\ ret.lines[k].count =
                    Cardinality({i \in 1..Len(results.checks) :
                        /\ results.checks[i].severity = SEVERITY.ERROR
                        /\ HasMarkdownRow(results.checks[i])})

\* C23: within one run, no two entries of results.checks have the same
\* category and the same name.
C23_UniqueNames ==
    InCheck =>
        \A i, j \in 1..Len(results.checks) :
            (/\ results.checks[i].category = results.checks[j].category
             /\ results.checks[i].name = results.checks[j].name) => i = j

\* a report where a catch branch has appended valid_json after checks of its
\* category, and where a name occurs in two categories
C23_Witness ==
    /\ Reported
    /\ \E i, j \in 1..Len(results.checks) :
          /\ i < j
          /\ results.checks[i].category = results.checks[j].category
          /\ results.checks[j].name = <<"valid_json">>
          /\ results.checks[j].severity = SEVERITY.ERROR
    /\ \E i, j \in 1..Len(results.checks) :
          /\ results.checks[i].name = results.checks[j].name
          /\ results.checks[i].category # results.checks[j].category

\* C24: when the target path is a regular file, the run ends at the
\* existence gate as for a missing path: it never enters a later section and
\* its report holds the directory_exists error and no other check.
C24_GateTestsDirectory ==
    (InCheck /\ tree["."].kind = "file") =>
        /\ pc \in {"DirectoryExists", "formatOutput", "print", "exited"}
        /\ Len(results.checks) <= 1
        /\ pc # "DirectoryExists" =>
              /\ Len(results.checks) = 1
              /\ results.checks[1].category = "structure"
              /\ results.checks[1].name = <<"directory_exists">>
              /\ results.checks[1].severity = SEVERITY.ERROR

\* the checks of the category other than the presence check and valid_json
SubChecks(category) ==
    SelectSeq(ChecksIn(category),
              LAMBDA c : c.name \notin {<<"valid_json">>, <<"has_marketplace_json">>,
                                        <<"exists">>})

\* the report holds the valid_json error of the category
HasParseError(category) ==
    \E i \in 1..Len(results.checks) :
        /\ results.checks[i].category = category
        /\ results.checks[i].name = <<"valid_json">>
        /\ results.checks[i].severity = SEVERITY.ERROR

\* C25: whenever the report holds the marketplace valid_json error, it holds
\* no marketplace sub-check (field_*, has_valid_categories,
\* has_valid_keywords, valid_marketplace, valid_repository_url), whatever
\* JSON value marketplace.json holds.
C25_MarketplaceParseExclusive ==
    (InCheck /\ HasParseError("marketplace")) => SubChecks("marketplace") = <<>>

\* C26: whenever the report holds the polyglot.json valid_json error, it
\* holds neither has_default_language nor multiple_languages; and whenever
\* polyglot.json parses as JSON, the localization step appends both
\* sub-checks and no valid_json error.
C26_PolyglotParseExclusive ==
    /\ (InCheck /\ HasParseError("polyglot.json")) => SubChecks("polyglot.json") = <<>>
    /\ (/\ Left("Polyglot")
        /\ tree["polyglot.json"].kind = "file"
        /\ JSONParse(readFileSync(tree, "polyglot.json")) # Thrown) =>
            /\ ~HasParseError("polyglot.json")
            /\ Len(ChecksNamed("has_default_language")) = 1
            /\ Len(ChecksNamed("multiple_languages")) = 1

\* the warnings of the report that tell of the absence of the file
AbsenceWarnings(file) ==
    SelectSeq(results.warnings,
              LAMBDA c : \/ c.name = <<"file_", file>>
                         \/ c.category = file /\ c.name = <<"exists">>)

\* C27: in a report on an existing target, results.warnings holds exactly
\* one entry for each recommended file that is absent and none for each
\* that is present; an absent polyglot.json counts once.
C27_OneWarningPerMissingFile ==
    (Reported /\ existsSync(tree, ".")) =>
        \A i \in 1..Len(RECOMMENDED_FILES) :
            Len(AbsenceWarnings(RECOMMENDED_FILES[i])) =
                (IF existsSync(tree, RECOMMENDED_FILES[i]) THEN 0 ELSE 1)

\* ------------------------------------------------ generator: initSkill

\* the files initSkill creates, in the order of its createFile calls
InitFiles ==
    <<"package.json", "polyglot.json", "src/cli/index.js", "README.md", ".gitignore",
      ".skill.yml">>

\* the package.json object of initSkill (the scripts, which no command
\* reads, are left empty)
initPackageJson(skillName) ==
    Obj(<<Prop(Key.name, Str(skillName)),
          Prop(Key.version, Str(<<"1",".","0",".","0">>)),
          Prop(Key.description,
               Str(<<"A"," ","C","l","a","u","d","e"," ","s","k","i","l","l"," ","f","o","r"," ">>
                   \o DashesToSpaces(skillName))),
          Prop(Key.type, Str(moduleType)),
          Prop(Key.main, Str(CliEntryPoint)),
          Prop(Key.bin, Obj(<<Prop(skillName, Str(CliEntryPoint))>>)),
          Prop(<<"s","c","r","i","p","t","s">>, Obj(<<>>)),
          Prop(Key.keywords, Arr(<<Str(<<"c","l","a","u","d","e">>),
                                   Str(<<"s","k","i","l","l">>), Str(skillName)>>)),
          Prop(Key.author, Str(<<>>)),
          Prop(Key.license, Str(<<"M","I","T">>)),
          Prop(<<"d","e","p","e","n","d","e","n","c","i","e","s">>,
               Obj(<<Prop(<<"p","i","c","o","c","o","l","o","r","s">>,
                          Str(<<"^","1",".","1",".","1">>)),
                     Prop(<<"y","a","r","g","s">>, Str(<<"^","1","7",".","7",".","2">>))>>))>>)

\* the polyglot.json object of initSkill: five keys, each with a default only
initPolyglotJson(skillName) ==
    LET entry(key, default) == Prop(key, Obj(<<Prop(<<>>, Str(default))>>))
    IN  Obj(<<entry(<<"s","k","i","l","l","_","n","a","m","e">>, skillClassName(skillName)),
              entry(<<"s","k","i","l","l","_","d","e","s","c","r","i","p","t","i","o","n">>,
                    <<"A"," ","C","l","a","u","d","e"," ","s","k","i","l","l"," ","f","o","r"," ">>
                    \o skillName),
              entry(<<"h","e","l","p","_","d","e","s","c","r","i","p","t","i","o","n">>,
                    <<"U","s","e"," ","t","h","i","s"," ","s","k","i","l","l"," ","t","o"," ">>
                    \o skillName),
              entry(<<"s","u","c","c","e","s","s","_","m","e","s","s","a","g","e">>,
                    <<"O","p","e","r","a","t","i","o","n"," ","c","o","m","p","l","e","t","e","d"," ",
                      "s","u","c","c","e","s","s","f","u","l","l","y">>),
              entry(<<"e","r","r","o","r","_","m","e","s","s","a","g","e">>,
                    <<"A","n"," ","e","r","r","o","r"," ","o","c","c","u","r","r","e","d">>)>>)

\* the content initSkill passes to createFile for the file
InitContent(filename, skillName) ==
    CASE filename = "package.json" -> JsonText(initPackageJson(skillName))
      [] filename = "polyglot.json" -> JsonText(initPolyglotJson(skillName))
      [] filename = "src/cli/index.js" -> Generated("cliContent")
      [] filename = "README.md" -> Generated("readmeContent")
      [] filename = ".gitignore" -> Generated("gitignoreContent")
      [] OTHER -> Generated("skillYmlContent")

\* createFile that writes whether or not the file exists
createFileAlways(state, filename, content, force) ==
    IF state.thrown THEN state
    ELSE IF ~CanMkdir(state.tree, Parent(filename)) THEN [state EXCEPT !.thrown = TRUE]
    ELSE IF ~CanWrite(mkdirSync(state.tree, Parent(filename)), filename)
    THEN [state EXCEPT !.thrown = TRUE]
    ELSE [state EXCEPT
            !.tree = writeFileSync(mkdirSync(state.tree, Parent(filename)), filename, content),
            !.results.created = Append(@, filename)]

\* createFile(filename, content), applied to the tree and the results so far;
\* an exception of mkdirSync or writeFileSync leaves initSkill (no call passes
\* the overwrite argument)
createFile(state, filename, content, force) ==
    IF state.thrown THEN state
    ELSE IF existsSync(state.tree, filename) /\ ~force
    THEN [state EXCEPT !.results.skipped = Append(@, filename)]
    ELSE IF ~CanMkdir(state.tree, Parent(filename)) THEN [state EXCEPT !.thrown = TRUE]
    ELSE IF ~CanWrite(mkdirSync(state.tree, Parent(filename)), filename)
    THEN [state EXCEPT !.thrown = TRUE, !.tree = mkdirSync(state.tree, Parent(filename))]
    ELSE [state EXCEPT
            !.tree = writeFileSync(mkdirSync(state.tree, Parent(filename)), filename, content),
            !.results.created = Append(@, filename)]

RECURSIVE createFiles(_, _, _, _)
createFiles(state, files, skillName, force) ==
    IF files = <<>> THEN state
    ELSE createFiles(createFile(state, Head(files), InitContent(Head(files), skillName), force),
                     Tail(files), skillName, force)

\* initSkill(cwd, { force }) on the tree below cwd: the tree it leaves and
\* the results it returns (Thrown: the promise is rejected)
initSkill(tr, cwd, skillName, force) ==
    LET fresh == [success |-> TRUE, path |-> cwd, created |-> <<>>, skipped |-> <<>>,
                  errors |-> <<>>]
        existingPackage == JSONParse(readFileSync(tr, "package.json"))
        done == createFiles([tree |-> tr, results |-> fresh, thrown |-> FALSE],
                            InitFiles, skillName, force)
        create == [tree |-> done.tree,
                   ret  |-> IF done.thrown THEN Thrown
                            ELSE [success |-> done.results.success,
                                  path |-> done.results.path,
                                  created |-> done.results.created,
                                  skipped |-> done.results.skipped,
                                  errors |-> done.results.errors,
                                  message |-> "Skill initialized at ${cwd}"]]
    IN  \* Check if already initialized
        IF existsSync(tr, "package.json") /\ ~force
        THEN IF ~CanRead(tr, "package.json") \/ existingPackage = Thrown
                \/ GetProp(existingPackage, Key.name) = Thrown
             THEN [tree |-> tr, ret |-> Thrown]
             ELSE IF GetProp(existingPackage, Key.name) = Str(skillName)
             THEN [tree |-> tr,
                   ret  |-> [success |-> FALSE, path |-> cwd, created |-> <<>>,
                             skipped |-> <<>>, errors |-> <<>>,
                             message |-> "Directory is already initialized as a skill. Use --force to overwrite."]]
             ELSE create
        ELSE create

\* --------------------------------------- generator: the update functions

\* v[key] = val in a module (strict mode): a TypeError on null, undefined and
\* the primitives; an own property of an object, set in place or added last;
\* an element of an array (a named property of an array is left out by
\* JSON.stringify, which every caller applies next)
SetProp(v, key, val) ==
    CASE v.t = "object" ->
            IF \E i \in 1..Len(v.o) : v.o[i].k = key
            THEN Obj([i \in 1..Len(v.o) |-> IF v.o[i].k = key THEN Prop(key, val) ELSE v.o[i]])
            ELSE Obj(Append(v.o, Prop(key, val)))
      [] v.t = "array" ->
            Arr([i \in 1..Len(v.a) |->
                    IF IndexKeys(Len(v.a))[i] = key THEN val ELSE v.a[i]])
      [] OTHER -> Thrown

\* s.split(sep) for a separator of one character
RECURSIVE Split(_, _)
Split(s, sep) ==
    IF \A i \in 1..Len(s) : s[i] # sep THEN <<s>>
    ELSE LET i == CHOOSE k \in 1..Len(s) : s[k] = sep /\ \A j \in 1..(k - 1) : s[j] # sep
         IN  <<SubSeq(s, 1, i - 1)>> \o Split(SubSeq(s, i + 1, Len(s)), sep)

NaN == [t |-> "nan"]

RECURSIVE DigitsToNat(_)
DigitsToNat(s) ==
    IF s = <<>> THEN 0
    ELSE 10 * DigitsToNat(SubSeq(s, 1, Len(s) - 1))
         + (CHOOSE d \in 0..9 : Digits[d + 1] = s[Len(s)])

RECURSIVE NatToDigits(_)
NatToDigits(n) ==
    IF n < 10 THEN <<Digits[n + 1]>>
    ELSE NatToDigits(n \div 10) \o <<Digits[(n % 10) + 1]>>

\* Number(s) of a string without white space, sign, point or exponent: 0 for
\* the empty string, the value of decimal digits, NaN otherwise
Number(s) ==
    IF \A i \in 1..Len(s) : \E d \in 1..10 : Digits[d] = s[i]
    THEN Num(DigitsToNat(s)) ELSE NaN

\* the value of x after x++ (undefined and NaN give NaN)
Increment(v) == IF v.t = "number" THEN Num(v.n + 1) ELSE NaN

\* a[i] = v for an array of numbers: the array grows, with holes, up to i
SetIndex(a, i, v) ==
    [k \in 1..(IF i + 1 > Len(a) THEN i + 1 ELSE Len(a)) |->
        IF k = i + 1 THEN v ELSE IF k <= Len(a) THEN a[k] ELSE Undefined]

GetIndex(a, i) == IF i + 1 <= Len(a) THEN a[i + 1] ELSE Undefined

\* a.join('.') for an array of numbers: a hole is the empty string
RECURSIVE JoinDots(_)
JoinDots(a) ==
    LET text(v) == CASE v.t = "number" -> NatToDigits(v.n)
                     [] v.t = "nan" -> <<"N","a","N">>
                     [] OTHER -> <<>>
    IN  IF a = <<>> THEN <<>>
        ELSE IF Len(a) = 1 THEN text(a[1])
        ELSE text(a[1]) \o <<".">> \o JoinDots(Tail(a))

\* the loop `for (const key of Object.keys(polyglot))` that gives every key
\* without a truthy entry for lang the entry ''
RECURSIVE AddLanguageFrom(_, _, _, _)
AddLanguageFrom(polyglot, keys, lang, isNew) ==
    IF keys = <<>> THEN [polyglot |-> polyglot, isNew |-> isNew]
    ELSE LET entry == GetProp(polyglot, Head(keys))
             cur   == GetProp(entry, lang)
         IN  IF cur = Thrown THEN Thrown
             ELSE IF Truthy(cur) THEN AddLanguageFrom(polyglot, Tail(keys), lang, isNew)
             ELSE IF SetProp(entry, lang, Str(<<>>)) = Thrown THEN Thrown
             ELSE AddLanguageFrom(
                      SetProp(polyglot, Head(keys), SetProp(entry, lang, Str(<<>>))),
                      Tail(keys), lang, TRUE)

DependenciesKey == <<"d","e","p","e","n","d","e","n","c","i","e","s">>

\* a line of results.updated or results.errors, with the value it embeds
Line(text, arg) == [text |-> text, arg |-> arg]

\* Update: Add language to polyglot.json
UpdateLanguage(state, addLanguage) ==
    LET tr       == state.tree
        polyglot == JSONParse(readFileSync(tr, "polyglot.json"))
        added    == AddLanguageFrom(polyglot, ObjectKeys(polyglot), addLanguage.s, FALSE)
        failed   == [state EXCEPT
                        !.results.success = FALSE,
                        !.results.errors =
                            Append(@, Line("Failed to update polyglot.json: ${e.message}", <<>>))]
    IN  IF ~Truthy(addLanguage) THEN state
        ELSE IF ~existsSync(tr, "polyglot.json")
        THEN [state EXCEPT !.results.errors = Append(@, Line("polyglot.json not found", <<>>))]
        ELSE IF ~CanRead(tr, "polyglot.json") \/ polyglot = Thrown \/ ~CanEnumerate(polyglot)
        THEN failed
        ELSE IF added = Thrown THEN failed
        ELSE [state EXCEPT
                !.tree = writeFileSync(tr, "polyglot.json", JsonText(added.polyglot)),
                !.results.updated =
                    Append(@, Line("Added language \"${addLanguage}\" to polyglot.json",
                                   addLanguage.s))]

\* Update: Add dependency to package.json
UpdateDependency(state, addDependency) ==
    LET tr          == state.tree
        packageJson == JSONParse(readFileSync(tr, "package.json"))
        parts       == Split(addDependency.s, "@")
        packageName == IF Includes(addDependency.s, <<"@">>) THEN parts[1] ELSE addDependency.s
        version     == IF Includes(addDependency.s, <<"@">>) THEN parts[2]
                       ELSE <<"l","a","t","e","s","t">>
        existing    == GetProp(packageJson, DependenciesKey)
        \* if (!packageJson.dependencies) packageJson.dependencies = {}
        withDeps    == IF Truthy(existing) THEN packageJson
                       ELSE SetProp(packageJson, DependenciesKey, Obj(<<>>))
        dependencies == IF Truthy(existing) THEN existing ELSE Obj(<<>>)
        assigned    == SetProp(dependencies, packageName, Str(<<"^">> \o version))
        failed      == [state EXCEPT
                          !.results.success = FALSE,
                          !.results.errors =
                              Append(@, Line("Failed to update package.json: ${e.message}", <<>>))]
    IN  IF ~Truthy(addDependency) THEN state
        ELSE IF ~existsSync(tr, "package.json")
        THEN [state EXCEPT !.results.errors = Append(@, Line("package.json not found", <<>>))]
        ELSE IF ~CanRead(tr, "package.json") \/ packageJson = Thrown \/ existing = Thrown
        THEN failed
        ELSE IF withDeps = Thrown \/ assigned = Thrown THEN failed
        ELSE [state EXCEPT
                !.tree = writeFileSync(tr, "package.json",
                                       JsonText(SetProp(withDeps, DependenciesKey, assigned))),
                !.results.updated =
                    Append(@, Line("Added dependency \"${packageName}@${version}\" to package.json",
                                   packageName \o <<"@">> \o version))]

\* updateSkill(skillPath, { addLanguage, addDependency }) on the tree below
\* skillPath: the tree it leaves and the results it returns
updateSkill(tr, skillPath, addLanguage, addDependency) ==
    LET fresh == [success |-> TRUE, path |-> skillPath, updated |-> <<>>, errors |-> <<>>]
        done  == UpdateDependency(UpdateLanguage([tree |-> tr, results |-> fresh], addLanguage),
                                  addDependency)
    IN  \* Check if skill exists
        IF ~existsSync(tr, ".")
        THEN [tree |-> tr,
              ret  |-> [fresh EXCEPT !.success = FALSE,
                                     !.errors = <<Line("Skill not found: ${skillPath}", <<>>)>>]]
        ELSE [tree |-> done.tree,
              ret  |-> [success |-> done.results.success,
                        path |-> done.results.path,
                        updated |-> done.results.updated,
                        errors |-> done.results.errors,
                        message |->
                            IF done.results.updated = <<>> /\ done.results.errors = <<>>
                            THEN Msg("No updates specified. Use --add-language or --add-dependency.")
                            ELSE MsgN("Updated ${results.updated.length} item(s)",
                                      Len(done.results.updated))]]

\* the loop `for (const lang of languages)` of addLanguages; an exception
\* leaves it with what results.added and results.skipped hold by then
RECURSIVE AddEach(_, _)
AddEach(state, languages) ==
    IF languages = <<>> \/ state.thrown THEN state
    ELSE LET one == AddLanguageFrom(state.polyglot, ObjectKeys(state.polyglot),
                                    Head(languages), FALSE)
         IN  IF one = Thrown THEN [state EXCEPT !.thrown = TRUE]
             ELSE AddEach([state EXCEPT
                              !.polyglot = one.polyglot,
                              !.added = IF one.isNew THEN Append(@, Head(languages)) ELSE @,
                              !.skipped = IF one.isNew THEN @ ELSE Append(@, Head(languages))],
                          Tail(languages))

\* addLanguages(skillPath, languages)
addLanguages(tr, languages) ==
    LET polyglot == JSONParse(readFileSync(tr, "polyglot.json"))
        done == AddEach([polyglot |-> polyglot, added |-> <<>>, skipped |-> <<>>,
                         thrown |-> FALSE], languages)
        caught(added, skipped) ==
            [tree |-> tr,
             ret  |-> [success |-> FALSE, added |-> added, skipped |-> skipped,
                       error |-> "${e.message}"]]
    IN  IF ~existsSync(tr, "polyglot.json")
        THEN [tree |-> tr,
              ret  |-> [success |-> FALSE, added |-> <<>>, skipped |-> <<>>,
                        error |-> "polyglot.json not found"]]
        ELSE IF ~CanRead(tr, "polyglot.json") \/ polyglot = Thrown THEN caught(<<>>, <<>>)
        ELSE IF languages # <<>> /\ ~CanEnumerate(polyglot) THEN caught(<<>>, <<>>)
        ELSE IF done.thrown THEN caught(done.added, done.skipped)
        ELSE [tree |-> writeFileSync(tr, "polyglot.json", JsonText(done.polyglot)),
              ret  |-> [success |-> TRUE, added |-> done.added, skipped |-> done.skipped]]

\* the switch of bumpVersion on the version numbers
Bumped(currentVersion, versionType) ==
    CASE versionType = "major" ->
            SetIndex(SetIndex(SetIndex(currentVersion, 0, Increment(GetIndex(currentVersion, 0))),
                              1, Num(0)), 2, Num(0))
      [] versionType = "minor" ->
            SetIndex(SetIndex(currentVersion, 1, Increment(GetIndex(currentVersion, 1))),
                     2, Num(0))
      [] versionType = "patch" ->
            SetIndex(currentVersion, 2, Increment(GetIndex(currentVersion, 2)))
      [] OTHER -> currentVersion

\* bumpVersion(skillPath, versionType)
bumpVersion(tr, versionType) ==
    LET packageJson == JSONParse(readFileSync(tr, "package.json"))
        version     == GetProp(packageJson, Key.version)
        pieces      == Split(version.s, ".")
        currentVersion == Bumped([i \in 1..Len(pieces) |-> Number(pieces[i])], versionType)
        \* packageJson.version = currentVersion.join('.')
        assigned    == SetProp(packageJson, Key.version, Str(JoinDots(currentVersion)))
        caught      == [tree |-> tr, ret |-> [success |-> FALSE, error |-> "${e.message}"]]
    IN  IF ~existsSync(tr, "package.json")
        THEN [tree |-> tr, ret |-> [success |-> FALSE, error |-> "package.json not found"]]
        ELSE IF ~CanRead(tr, "package.json") \/ packageJson = Thrown THEN caught
        ELSE IF version = Thrown \/ version.t # "string" THEN caught
        ELSE IF assigned = Thrown THEN caught
        ELSE [tree |-> writeFileSync(tr, "package.json", JsonText(assigned)),
              ret  |-> [success |-> TRUE,
                        oldVersion |-> GetProp(assigned, Key.version).s,
                        newVersion |-> JoinDots(currentVersion)]]

\* ---------------------------------------------- the generator commands

MaxCalls == 2

\* a directory that holds nothing yet
EmptyDir == [NoTree EXCEPT !["."] = Dir]

\* package.json documents with other versions: a carry, two numbers only, a
\* pre-release suffix, a number in place of the string
VersionTexts ==
    {JsonText(SetProp(generatePackageJson(TargetName), Key.version, v)) :
        v \in {Str(<<"9",".","9",".","9">>), Str(<<"1",".","9">>),
               Str(<<"1",".","2",".","3","-","r","c">>), Num(1)}}

\* the trees the generator calls start from
GenTrees ==
    InitialTrees \cup {EmptyDir} \cup
    {[CompleteTree EXCEPT !["package.json"] = File(x)] : x \in VersionTexts}

\* --add-language, --add-dependency (undefined when the option is not given)
Languages == {<<"z","h">>, <<"f","r">>}

LanguageOptions == {Undefined} \cup {Str(l) : l \in Languages}

DependencyOptions == {Undefined, Str(<<"x">>), Str(<<"x","@","2">>)}

LanguageLists == {<<l>> : l \in Languages} \cup {<< <<"z","h">>, <<"f","r">> >>}

VersionTypes == {"major", "minor", "patch"}

GenInit ==
    /\ tree \in GenTrees
    /\ pc = "idle"
    /\ command = "none"
    /\ translations = <<>>
    /\ format = "text"
    /\ template = "basic"
    /\ options = <<>>
    /\ callCount = 0
    /\ step = 1
    /\ results = Undefined
    /\ ret = Undefined
    /\ stdout = <<>>

\* a generator call ends: the tree it leaves, the value it resolved with, and
\* what the handler printed of it (a rejected promise prints nothing)
Resolve(name, opts, outcome, printed) ==
    /\ command' = name
    /\ options' = opts
    /\ tree' = outcome.tree
    /\ ret' = outcome.ret
    /\ pc' = IF outcome.ret = Thrown THEN "rejected" ELSE "exited"
    /\ stdout' = IF printed /\ outcome.ret # Thrown THEN <<outcome.ret>> ELSE <<>>
    /\ callCount' = callCount + 1
    /\ UNCHANGED <<translations, format, template, step, results>>

\* `skills-builder init [--force]` in the skill directory: the handler calls
\* initSkill(process.cwd(), { force, translations }) and prints the result
InitCommand ==
    /\ Stopped
    /\ callCount < MaxCalls
    /\ isDirectory(tree, ".")
    /\ \E force \in BOOLEAN :
          Resolve("init", [force |-> force],
                  initSkill(tree, join(BasePath, TargetName), TargetName, force), TRUE)

\* `skills-builder update <path> [--add-language L] [--add-dependency D]`
UpdateCommand ==
    /\ Stopped
    /\ callCount < MaxCalls
    /\ \E addLanguage \in LanguageOptions, addDependency \in DependencyOptions :
          Resolve("update", [addLanguage |-> addLanguage, addDependency |-> addDependency],
                  updateSkill(tree, join(BasePath, TargetName), addLanguage, addDependency),
                  TRUE)

\* a caller of the module calls addLanguages(skillPath, languages)
AddLanguagesCall ==
    /\ Stopped
    /\ callCount < MaxCalls
    /\ \E languages \in LanguageLists :
          Resolve("addLanguages", [languages |-> languages], addLanguages(tree, languages),
                  FALSE)

\* a caller of the module calls bumpVersion(skillPath, versionType)
BumpVersionCall ==
    /\ Stopped
    /\ callCount < MaxCalls
    /\ \E versionType \in VersionTypes :
          Resolve("bumpVersion", [versionType |-> versionType],
                  bumpVersion(tree, versionType), FALSE)

GenNext ==
    \/ InitCommand
    \/ UpdateCommand
    \/ AddLanguagesCall
    \/ BumpVersionCall

GenSpec == GenInit /\ [][GenNext]_vars

\* ------------------------------------------- properties of the generator

\* x is an element of the sequence s
InSeq(x, s) == \E i \in 1..Len(s) : s[i] = x

\* this step is a call of the named generator function
Calls(name) == callCount' # callCount /\ command' = name

\* the call found a package.json whose name is the name of the directory
AlreadyInitialized ==
    /\ CanRead(tree, "package.json")
    /\ JSONParse(readFileSync(tree, "package.json")) # Thrown
    /\ GetProp(JSONParse(readFileSync(tree, "package.json")), Key.name) = Str(TargetName)

\* no file that exists is given another content by this step
KeepsFiles == \A p \in Paths : tree[p].kind = "file" => tree'[p] = tree[p]

\* every file initSkill creates is in exactly one of created and skipped, and
\* in skipped iff it existed before this step
SortsEveryFile ==
    \A i \in 1..Len(InitFiles) :
        /\ InSeq(InitFiles[i], ret'.created) # InSeq(InitFiles[i], ret'.skipped)
        /\ InSeq(InitFiles[i], ret'.skipped) <=> existsSync(tree, InitFiles[i])

\* C22 as stated: without force every call of initSkill sorts each of the six
\* files into created or skipped.
C22_Original ==
    [][Calls("init") =>
        /\ ~options'.force => KeepsFiles
        /\ (~options'.force /\ ret' # Thrown) => SortsEveryFile
        /\ (options'.force /\ ret' # Thrown) =>
              \A i \in 1..Len(InitFiles) : InSeq(InitFiles[i], ret'.created)]_vars

\* C22: initSkill without force never overwrites: every file that existed
\* before the call has the same content after it. When the call returns, then
\* either it found the directory already initialized (a package.json whose
\* name is the directory's), touched nothing and returned success false with
\* created and skipped empty, or each of the six files is in exactly one of
\* created and skipped, in skipped iff it existed before. With force every
\* one of the six is in created.
C22_InitNeverOverwrites ==
    [][Calls("init") =>
        /\ ~options'.force => KeepsFiles
        /\ (~options'.force /\ ret' # Thrown) =>
              IF AlreadyInitialized
              THEN /\ tree' = tree
                   /\ ret'.success = FALSE
                   /\ ret'.created = <<>>
                   /\ ret'.skipped = <<>>
              ELSE SortsEveryFile /\ ret'.success
        /\ (options'.force /\ ret' # Thrown) =>
              \A i \in 1..Len(InitFiles) : InSeq(InitFiles[i], ret'.created)]_vars

\* initSkill without force has returned with some files skipped, which are
\* as they were, and the others created
C22_Witness ==
    /\ command = "init"
    /\ pc = "exited"
    /\ ~options.force
    /\ ret.created # <<>>
    /\ ret.skipped # <<>>
    /\ \A i \in 1..Len(ret.skipped) : tree[ret.skipped[i]].kind # "absent"

\* C28: in every result updateSkill returns, success is true iff errors is
\* empty, and the message does not tell of an update when nothing was
\* updated.
C28_UpdateSuccessIffNoError ==
    (command = "update" /\ pc = "exited") =>
        /\ ret.success <=> (ret.errors = <<>>)
        /\ (ret.updated = <<>> /\ "message" \in DOMAIN ret) =>
              ret.message.text # "Updated ${results.updated.length} item(s)"

\* C29: a successful bumpVersion on version a.b.c writes a+1.0.0 for major,
\* a.b+1.0 for minor and a.b.c+1 for patch, and returns oldVersion equal to
\* the version stored before the call and newVersion equal to the version
\* stored after it, the two being different.
C29_BumpVersion ==
    [][(Calls("bumpVersion") /\ ret'.success) =>
        LET before == GetProp(JSONParse(readFileSync(tree, "package.json")), Key.version).s
            after  == GetProp(JSONParse(readFileSync(tree', "package.json")), Key.version).s
            part(i) == DigitsToNat(Split(before, ".")[i])
            abc    == /\ Len(Split(before, ".")) = 3
                      /\ \A i \in 1..3 : Number(Split(before, ".")[i]).t = "number"
                      /\ \A i \in 1..3 : Split(before, ".")[i] # <<>>
        IN  abc =>
              /\ after = (CASE options'.versionType = "major" ->
                                NatToDigits(part(1) + 1) \o <<".","0",".","0">>
                            [] options'.versionType = "minor" ->
                                NatToDigits(part(1)) \o <<".">> \o NatToDigits(part(2) + 1)
                                \o <<".","0">>
                            [] OTHER ->
                                NatToDigits(part(1)) \o <<".">> \o NatToDigits(part(2))
                                \o <<".">> \o NatToDigits(part(3) + 1))
              /\ ret'.oldVersion = before
              /\ ret'.newVersion = after
              /\ ret'.oldVersion # ret'.newVersion]_vars

\* some top-level key of the polyglot.json of the tree has no entry for lang
LacksEntry(tr, lang) ==
    LET polyglot == JSONParse(readFileSync(tr, "polyglot.json"))
    IN  \E i \in 1..Len(ObjectKeys(polyglot)) :
            GetProp(GetProp(polyglot, ObjectKeys(polyglot)[i]), lang) = Undefined

\* C30: after a successful addLanguages(path, [L]), a second
\* addLanguages(path, [L]) leaves the parsed polyglot.json as it is and
\* reports L in skipped and not in added; and a successful call reports a
\* language as added iff some top-level key had no entry for it before.
C30_AddLanguagesIdempotent ==
    [][(Calls("addLanguages") /\ ret'.success) =>
        /\ (/\ command = "addLanguages"
            /\ pc = "exited"
            /\ ret.success
            /\ Len(options.languages) = 1
            /\ options' = options) =>
                /\ JSONParse(readFileSync(tree', "polyglot.json"))
                      = JSONParse(readFileSync(tree, "polyglot.json"))
                /\ ret'.skipped = options.languages
                /\ ret'.added = <<>>
        /\ \A i \in 1..Len(options'.languages) :
              InSeq(options'.languages[i], ret'.added)
                  <=> LacksEntry(tree, options'.languages[i])]_vars

====
